---- MODULE Spec2Model ----
(***************************************************************************)
(* Model of the analytical queries of python-sql-interview-prep.           *)
(*                                                                         *)
(* The state is the content of the PostgreSQL tables the queries read      *)
(* (customers, categories, products, orders, order_items), the server's    *)
(* CURRENT_DATE, and the value last returned by each analytical method.    *)
(* Each method is one action: it evaluates its SQL text over the tables    *)
(* as PostgreSQL does and then applies the Python post-processing.         *)
(*                                                                         *)
(* Money is counted in whole currency units.  A NUMERIC quotient is kept   *)
(* as an exact fraction in lowest terms (record [num, den], den > 0):      *)
(* PostgreSQL keeps at least 16 significant digits of a quotient, far      *)
(* more than is needed to separate two distinct quotients of the amounts   *)
(* used here, so equality and order of the fractions are those of the      *)
(* values the server returns.                                              *)
(***************************************************************************)
EXTENDS Integers, Sequences, FiniteSets, TLC

(***************************************************************************)
(* Bounds of the model.                                                    *)
(***************************************************************************)
NumProducts == 4
NumCustomers == 2
MaxItems == 4
MaxSegOrders == 7
MaxRetOrders == 4
MaxTrendOrders == 4

MaxAnomOrders == 7

MaxClvOrders == 3

MaxDashOrders == 3

MaxApiOrders == 3

MaxCustomerIds == 3

(***************************************************************************)
(* Generic helpers.                                                        *)
(***************************************************************************)
Abs(x) == IF x < 0 THEN -x ELSE x

Min2(a, b) == IF a <= b THEN a ELSE b

RECURSIVE GCD(_, _)
GCD(a, b) == IF b = 0 THEN a ELSE GCD(b, a % b)

\* The NUMERIC value n / d (d # 0) as a fraction in lowest terms.
Frac(n, d) ==
    LET s == IF d < 0 THEN -1 ELSE 1
        g == GCD(Abs(n), Abs(d))
    IN  [num |-> (s * n) \div g, den |-> (s * d) \div g]

FracLeq(f, k) == f.num <= k * f.den

FracLess(f, g) == f.num * g.den < g.num * f.den

Range(s) == {s[i] : i \in 1..Len(s)}

RECURSIVE SumOver(_, _)
\* Sum of val[x] over the finite set S.
SumOver(S, val) ==
    IF S = {} THEN 0
    ELSE LET x == CHOOSE y \in S : TRUE IN val[x] + SumOver(S \ {x}, val)

\* All orderings (sequences without repetition) of the finite set S.
Perms(S) ==
    {s \in [1..Cardinality(S) -> S] : \A i, j \in 1..Cardinality(S) : i # j => s[i] # s[j]}

(***************************************************************************)
(* Calendar.  A date is a day number, day 0 being 1 January of BaseYear;   *)
(* a timestamp is day * TicksPerDay + tick, tick 0 being midnight.         *)
(***************************************************************************)
BaseYear == 2023
TicksPerDay == 2
Years == BaseYear..(BaseYear + 2)

IsLeap(y) == (y % 4 = 0) /\ ((y % 100 # 0) \/ (y % 400 = 0))

DaysInMonth(y, m) ==
    IF m = 2 THEN (IF IsLeap(y) THEN 29 ELSE 28)
    ELSE IF m \in {4, 6, 9, 11} THEN 30 ELSE 31

DaysInYear(y) == IF IsLeap(y) THEN 366 ELSE 365

RECURSIVE DaysBeforeYear(_)
DaysBeforeYear(y) == IF y <= BaseYear THEN 0 ELSE DaysBeforeYear(y - 1) + DaysInYear(y - 1)

RECURSIVE DaysBeforeMonth(_, _)
DaysBeforeMonth(y, m) == IF m <= 1 THEN 0 ELSE DaysBeforeMonth(y, m - 1) + DaysInMonth(y, m - 1)

MkDate(y, m, d) == DaysBeforeYear(y) + DaysBeforeMonth(y, m) + (d - 1)

\* The year, month and day of the month of every day number, tabulated.
Calendar ==
    [day \in 0..(DaysBeforeYear(BaseYear + 3) - 1) |->
        LET y == CHOOSE yy \in Years : DaysBeforeYear(yy) <= day /\ day < DaysBeforeYear(yy + 1)
            r == day - DaysBeforeYear(y)
            m == CHOOSE mm \in 1..12 :
                    DaysBeforeMonth(y, mm) <= r /\ r < DaysBeforeMonth(y, mm) + DaysInMonth(y, mm)
        IN  [year |-> y, month |-> m, dom |-> r - DaysBeforeMonth(y, m) + 1]]

YearOf(day) == Calendar[day].year

MonthOf(day) == Calendar[day].month

DayOfMonth(day) == Calendar[day].dom

\* date - INTERVAL 'n months': the same day of the month n months earlier,
\* clamped to the last day of that month.
MinusMonths(day, n) ==
    LET y == YearOf(day)
        m == MonthOf(day)
        k == (y * 12 + (m - 1)) - n
        y2 == k \div 12
        m2 == (k % 12) + 1
    IN  MkDate(y2, m2, Min2(DayOfMonth(day), DaysInMonth(y2, m2)))

\* A date as a timestamp (midnight), and the date / month / year of a timestamp.
Midnight(day) == day * TicksPerDay

DateOf(ts) == ts \div TicksPerDay

ExtractMonth(ts) == MonthOf(DateOf(ts))

ExtractYear(ts) == YearOf(DateOf(ts))

(***************************************************************************)
(* State.                                                                  *)
(***************************************************************************)
VARIABLES
    customers,        \* customer_id -> [customer_name]
    categories,       \* category_id -> [category_name]
    products,         \* product_id -> [product_name, category_id, price, average_rating]
    orders,           \* rows of table orders, in order_id order
    order_items,      \* rows of table order_items, in order_item_id order
    today,            \* CURRENT_DATE of the database server (a day number)
    phase,            \* "loading" while the sample data is loaded, then "ready"
    abc_result,       \* last value returned by InventoryOptimizer.abc_analysis
    retention_result, \* last value returned by CustomerAnalytics.customer_retention_rate
    segments_result,  \* last value returned by CustomerAnalytics.segment_customers
    trends_result,    \* last value returned by SalesAnalytics.monthly_trends
    trends_sj_result, \* last value returned by SalesAnalyticsAlternatives.monthly_trends_self_join
    pending_customers,    \* customer_ids inserted in the connection's open transaction
    anomalies_result,     \* last value returned by SalesAnalytics.detect_anomalies
    clv_result,           \* last value returned by AnalyticsAPI.get_customer_lifetime_value
    performance_result,   \* last value returned by SalesAnalytics.product_performance
    dashboard_result,     \* last value returned by AnalyticsAPI.get_dashboard_metrics
    top_customers_result, \* last value returned by CustomerAnalytics.get_top_customers
    order_status_result,  \* last value returned by OrderAPI.get_order_status
    api_result,           \* last response of UserAPI.create_user, OrderAPI.create_order or cancel_order
    id_seq,               \* last values of the customer_id, order_id and order_item_id sequences
    daily_report_result,  \* last value returned by process_daily_sales_report
    retention_alt_result, \* last values returned by retention_rate_with_exists and _single_query
    connection,           \* Database.connection: "none" (None), "open" or "closed"
    db_result,            \* how the last call on the Database handle ended
    nums,                 \* the list passed to two_sum, remove_duplicates and subarray_sum
    target,               \* the target of two_sum
    sum_k,                \* the k of subarray_sum: the sum it looks for
    answer                \* the value the last of these functions returned

tables == <<customers, categories, products, orders, order_items, today>>

results == <<abc_result, retention_result, segments_result, trends_result, trends_sj_result>>

\* The Database handle and the inputs and result of the list functions.
handle == <<connection, db_result, nums, target, sum_k, answer>>

later == <<daily_report_result, retention_alt_result, handle>>

more == <<pending_customers, anomalies_result, clv_result, performance_result, dashboard_result,
          top_customers_result, order_status_result, api_result, id_seq, later>>

vars == <<customers, categories, products, orders, order_items, today, phase,
          abc_result, retention_result, segments_result, trends_result, trends_sj_result,
          pending_customers, anomalies_result, clv_result, performance_result, dashboard_result,
          top_customers_result, order_status_result, api_result, id_seq,
          daily_report_result, retention_alt_result, connection, db_result, nums, target, sum_k, answer>>

(***************************************************************************)
(* Fixed reference data: customers, categories and products.  Names are    *)
(* not unique (no query or check in the code makes them so): products 1    *)
(* and 3, and customers 1 and 2, share a name.                             *)
(***************************************************************************)
ProductNameOf(p) == IF p % 2 = 1 THEN "widget" ELSE "gadget"

PriceOf(p) == IF p <= 2 THEN 40 ELSE IF p = 3 THEN 15 ELSE 5

CustomerNameOf(c) == IF c <= 2 THEN "alice" ELSE "bob"

NumCategories == 2

CategoryNameOf(k) == IF k = 1 THEN "tools" ELSE "toys"

SeedCustomers == [c \in 1..NumCustomers |-> [customer_name |-> CustomerNameOf(c)]]

SeedCategories == [k \in 1..NumCategories |-> [category_name |-> CategoryNameOf(k)]]

\* average_rating in tenths; NullRating stands for NULL (no rating).
NullRating == -1

RatingOf(p) == IF p = 1 THEN 45 ELSE IF p = 2 THEN NullRating ELSE IF p = 3 THEN 0 ELSE 30

SeedProducts ==
    [p \in 1..NumProducts |->
        [product_name |-> ProductNameOf(p),
         category_id |-> ((p - 1) % NumCategories) + 1,
         price |-> PriceOf(p),
         average_rating |-> RatingOf(p)]]

\* Values no method has returned yet.
NoAbc == [called |-> FALSE, A |-> <<>>, B |-> <<>>, C |-> <<>>]

NoRetention == [called |-> FALSE, months_back |-> 0, value |-> Frac(0, 1)]

NoSegments ==
    LET none == [n \in {CustomerNameOf(c) : c \in 1..NumCustomers} |-> 0]
    IN  [called |-> FALSE, frequent |-> none, big_spender |-> none, at_risk |-> none, new |-> none]

NoTrends == [called |-> FALSE, year |-> 0, rows |-> <<>>]

NoAnomalies == [called |-> FALSE, failed |-> FALSE, rows |-> <<>>]

NoRows == [called |-> FALSE, rows |-> <<>>]

NoClv == [called |-> FALSE, customer_id |-> 0, rows |-> <<>>]

NoDashboard ==
    [called |-> FALSE, date_range |-> "", total_sales |-> 0, total_orders |-> 0,
     total_customers |-> 0, sales_growth |-> 0, orders_growth |-> 0, customers_growth |-> 0,
     top_products |-> <<>>]

NoOrderStatus ==
    [called |-> FALSE, order_id |-> 0, found |-> FALSE, status |-> "", total_amount |-> 0,
     items |-> {}]

NoResponse == [op |-> "", success |-> FALSE, id |-> 0, error |-> ""]

\* The sequences before any insert through the API.
NoIds == [customers |-> 0, orders |-> 0, order_items |-> 0]

NoDailyReport ==
    [called |-> FALSE, date |-> 0, total_orders |-> 0, total_customers |-> 0, total_sales |-> 0,
     new_customers |-> 0, returning_customers |-> 0]

NoRetentionAlt == [with_exists |-> NoRetention, single_query |-> NoRetention]

\* No call on the handle and no list function has returned yet.
NoAnswer == [fn |-> "", given |-> <<>>, value |-> <<>>]

NoCall == [op |-> "", outcome |-> ""]

\* The handle has connected; no list function is in use.
HandleInUse ==
    /\ connection = "open"
    /\ db_result = NoCall
    /\ nums = <<>>
    /\ target = 0
    /\ sum_k = 0
    /\ answer = NoAnswer

NoQueryResults ==
    /\ daily_report_result = NoDailyReport
    /\ retention_alt_result = NoRetentionAlt
    /\ anomalies_result = NoAnomalies
    /\ clv_result = NoClv
    /\ performance_result = NoRows
    /\ dashboard_result = NoDashboard
    /\ top_customers_result = NoRows
    /\ order_status_result = NoOrderStatus
    /\ api_result = NoResponse
    /\ abc_result = NoAbc
    /\ retention_result = NoRetention
    /\ segments_result = NoSegments
    /\ trends_result = NoTrends
    /\ trends_sj_result = NoTrends

NoResults ==
    /\ NoQueryResults
    /\ HandleInUse
    /\ pending_customers = {}
    /\ id_seq = NoIds

\* The sample data has been loaded: the queries run on a fixed snapshot.
FinishSetup ==
    /\ phase = "loading"
    /\ phase' = "ready"
    /\ UNCHANGED <<tables, results, more>>

(***************************************************************************)
(* Loading of order_items rows (sample data).  total_price is quantity x   *)
(* unit_price and unit_price is the price of the product.  Rows are        *)
(* loaded in a fixed (product, quantity) order: the queries read the       *)
(* table as a set of rows, so the load order is immaterial.                *)
(***************************************************************************)
ItemQuantities == {1, 2}

ItemKey(it) == it.product_id * 100 + it.quantity

LoadItem(p, q) ==
    /\ phase = "loading"
    /\ Len(order_items) < MaxItems
    /\ Len(orders) > 0
    /\ p \in DOMAIN products
    /\ LET it == [order_item_id |-> Len(order_items) + 1,
                  order_id |-> orders[Len(orders)].order_id,
                  product_id |-> p,
                  quantity |-> q,
                  unit_price |-> products[p].price,
                  total_price |-> q * products[p].price]
       IN  /\ order_items # <<>> => ItemKey(order_items[Len(order_items)]) <= ItemKey(it)
           /\ order_items' = Append(order_items, it)
    /\ UNCHANGED <<customers, categories, products, orders, today, phase, results, more>>

(***************************************************************************)
(* InventoryOptimizer.abc_analysis                                         *)
(***************************************************************************)
\* CTE product_revenue: products JOIN categories LEFT JOIN order_items,
\* one row per product that has a category.
ProductRevenueRows == {p \in DOMAIN products : products[p].category_id \in DOMAIN categories}

\* COALESCE(SUM(oi.total_price), 0) of product p.
TotalRevenue(p) ==
    LET I == {i \in 1..Len(order_items) : order_items[i].product_id = p}
    IN  SumOver(I, [i \in I |-> order_items[i].total_price])

\* CTE with_percentiles: WHERE total_revenue > 0.
WithPercentilesRows == {p \in ProductRevenueRows : TotalRevenue(p) > 0}

\* SUM(total_revenue) OVER ().
TotalAllRevenue == SumOver(WithPercentilesRows, [p \in WithPercentilesRows |-> TotalRevenue(p)])

\* SUM(total_revenue) OVER (ORDER BY total_revenue DESC) with consecutive
\* rows: each row adds its own revenue only (rows ranked by revenue, then id).
RunningRevenueByRow(p) ==
    LET F == {q \in WithPercentilesRows :
                 \/ TotalRevenue(q) > TotalRevenue(p)
                 \/ TotalRevenue(q) = TotalRevenue(p) /\ q <= p}
    IN  SumOver(F, [q \in F |-> TotalRevenue(q)])

\* The frame taken in ascending instead of descending revenue order.
RunningRevenueAscending(p) ==
    LET F == {q \in WithPercentilesRows : TotalRevenue(q) <= TotalRevenue(p)}
    IN  SumOver(F, [q \in F |-> TotalRevenue(q)])

\* SUM(total_revenue) OVER (ORDER BY total_revenue DESC): the default frame
\* is RANGE BETWEEN UNBOUNDED PRECEDING AND CURRENT ROW, which ends at the
\* last peer of the current row, so rows of equal revenue share one sum.
RunningRevenue(p) ==
    LET F == {q \in WithPercentilesRows : TotalRevenue(q) >= TotalRevenue(p)}
    IN  SumOver(F, [q \in F |-> TotalRevenue(q)])

\* (running_revenue / total_all_revenue) * 100
CumulativePercent(p) == Frac(RunningRevenue(p) * 100, TotalAllRevenue)

\* The CASE with the first bound exclusive.
AbcClassExclusive(cum) ==
    IF cum.num < 80 * cum.den THEN "A"
    ELSE IF FracLeq(cum, 95) THEN "B" ELSE "C"

\* CASE WHEN cumulative <= 80 THEN 'A' WHEN cumulative <= 95 THEN 'B' ELSE 'C'
AbcClass(cum) ==
    IF FracLeq(cum, 80) THEN "A"
    ELSE IF FracLeq(cum, 95) THEN "B" ELSE "C"

\* The row of product p as the Python code stores it.
AbcEntry(p) ==
    [product_name |-> products[p].product_name,
     category |-> categories[products[p].category_id].category_name,
     total_revenue |-> TotalRevenue(p),
     cumulative_percent |-> CumulativePercent(p)]

\* The rows in one order that ORDER BY total_revenue DESC allows (rows of
\* equal revenue come in any order), split by class as the loop does.
abc_analysis ==
    /\ phase = "ready"
    /\ \E ord \in Perms(WithPercentilesRows) :
          /\ \A i \in 1..(Len(ord) - 1) : TotalRevenue(ord[i]) >= TotalRevenue(ord[i + 1])
          /\ LET InA(p) == AbcClass(CumulativePercent(p)) = "A"
                 InB(p) == AbcClass(CumulativePercent(p)) = "B"
                 InC(p) == AbcClass(CumulativePercent(p)) = "C"
                 Entries(s) == [i \in 1..Len(s) |-> AbcEntry(s[i])]
             IN  abc_result' = [called |-> TRUE,
                                A |-> Entries(SelectSeq(ord, InA)),
                                B |-> Entries(SelectSeq(ord, InB)),
                                C |-> Entries(SelectSeq(ord, InC))]
    /\ UNCHANGED <<tables, phase, more, retention_result, segments_result, trends_result, trends_sj_result>>

\* The one order all loaded order_items belong to.
SeedOrder(day) ==
    [order_id |-> 1, customer_id |-> 1, order_date |-> Midnight(day) + 1,
     total_amount |-> 0, status |-> "delivered"]

AbcToday == MkDate(BaseYear + 1, 3, 31)

InitAbc ==
    /\ customers = SeedCustomers
    /\ categories = SeedCategories
    /\ products = SeedProducts
    /\ orders = <<SeedOrder(AbcToday)>>
    /\ order_items = <<>>
    /\ today = AbcToday
    /\ phase = "loading"
    /\ NoResults

NextAbc ==
    \/ \E p \in 1..NumProducts, q \in ItemQuantities : LoadItem(p, q)
    \/ FinishSetup
    \/ abc_analysis

SpecAbc == InitAbc /\ [][NextAbc]_vars

(***************************************************************************)
(* Claims about abc_analysis (checked under SpecAbc).                      *)
(***************************************************************************)
\* Revenue of product p, summed row by row over order_items.
RECURSIVE ItemsRevenueFrom(_, _)
RECURSIVE ItemsUnitsFrom(_, _)
ItemsRevenueFrom(p, i) ==
    IF i > Len(order_items) THEN 0
    ELSE (IF order_items[i].product_id = p THEN order_items[i].total_price ELSE 0)
         + ItemsRevenueFrom(p, i + 1)

ItemsRevenue(p) == ItemsRevenueFrom(p, 1)

SoldProducts == {p \in DOMAIN products : ItemsRevenue(p) > 0}

\* The returned entries walked class by class: all of 'A', then 'B', then 'C'.
AbcWalk == abc_result.A \o abc_result.B \o abc_result.C

AbcClassAt(i) ==
    IF i <= Len(abc_result.A) THEN "A"
    ELSE IF i <= Len(abc_result.A) + Len(abc_result.B) THEN "B" ELSE "C"

\* Revenue of all products that earned at least r, as a percentage of all revenue.
PercentAtOrAbove(r) ==
    LET F == {q \in SoldProducts : ItemsRevenue(q) >= r}
    IN  Frac(100 * SumOver(F, [q \in F |-> ItemsRevenue(q)]),
             SumOver(SoldProducts, [q \in SoldProducts |-> ItemsRevenue(q)]))

C2_SingleProductIsClassA ==
    (abc_result.called /\ Cardinality(SoldProducts) = 1) =>
      /\ Len(abc_result.A) = 1
      /\ abc_result.A[1].cumulative_percent = Frac(100, 1)
      /\ abc_result.B = <<>>
      /\ abc_result.C = <<>>

\* C3: walking the returned products in descending-revenue order (class A,
\* then B, then C), revenue never increases, cumulative_percent never
\* decreases, and the entries with cumulative_percent <= 80 are exactly the
\* class-A entries, so the last of them is the last class-A product.
C3_AbcMonotone ==
    abc_result.called =>
      /\ \A i, j \in 1..Len(AbcWalk) :
            i < j => /\ AbcWalk[i].total_revenue >= AbcWalk[j].total_revenue
                     /\ ~FracLess(AbcWalk[j].cumulative_percent, AbcWalk[i].cumulative_percent)
      /\ \A k \in {"A", "B", "C"} : \A i, j \in 1..Len(abc_result[k]) :
            i < j => abc_result[k][i].total_revenue >= abc_result[k][j].total_revenue
      /\ \A i \in 1..Len(AbcWalk) :
            FracLeq(AbcWalk[i].cumulative_percent, 80) <=> i <= Len(abc_result.A)

\* Witness of C3: a call that returned at least two class-A products of
\* different revenue and products in the other two classes.
C3_Witness ==
    /\ abc_result.called
    /\ Len(abc_result.A) >= 2
    /\ abc_result.A[1].total_revenue > abc_result.A[2].total_revenue
    /\ Len(abc_result.B) > 0
    /\ Len(abc_result.C) > 0

\* C4: two products with equal positive revenue get different
\* cumulative_percent values, the product with the lower id the smaller.
C4_TiesGetDistinctPercent ==
    abc_result.called =>
      \A p, q \in SoldProducts :
        (p < q /\ ItemsRevenue(p) = ItemsRevenue(q)) =>
          \E i, j \in 1..Len(AbcWalk) :
            /\ i # j
            /\ AbcWalk[i].product_name = products[p].product_name
            /\ AbcWalk[j].product_name = products[q].product_name
            /\ AbcWalk[i].total_revenue = ItemsRevenue(p)
            /\ AbcWalk[j].total_revenue = ItemsRevenue(q)
            /\ FracLess(AbcWalk[i].cumulative_percent, AbcWalk[j].cumulative_percent)

(***************************************************************************)
(* Loading of orders rows (sample data).  order_id follows the load        *)
(* order, which is by (order_date, customer_id, total_amount): the         *)
(* queries read the table as a set of rows.                                *)
(***************************************************************************)
OrderKey(o) == (o.order_date * 100 + o.customer_id) * 10000 + o.total_amount

LoadOrder(c, ts, amount, max) ==
    /\ phase = "loading"
    /\ Len(orders) < max
    /\ c \in DOMAIN customers
    /\ LET o == [order_id |-> Len(orders) + 1, customer_id |-> c, order_date |-> ts,
                 total_amount |-> amount, status |-> "delivered"]
       IN  /\ orders # <<>> => OrderKey(orders[Len(orders)]) <= OrderKey(o)
           /\ orders' = Append(orders, o)
    /\ UNCHANGED <<customers, categories, products, order_items, today, phase, results, more>>

(***************************************************************************)
(* CustomerAnalytics.customer_retention_rate                               *)
(***************************************************************************)
\* CURRENT_DATE - INTERVAL 'mb months' - INTERVAL '1 month', as a timestamp.
MonthsBackStart(mb) == Midnight(MinusMonths(MinusMonths(today, mb), 1))

\* CURRENT_DATE - INTERVAL 'mb months', as a timestamp.
MonthsBackEnd(mb) == Midnight(MinusMonths(today, mb))

\* CURRENT_DATE - INTERVAL '1 month', as a timestamp.
RecentStart == Midnight(MinusMonths(today, 1))

\* The window with its end bound included.
InMonthsBackWindowClosed(ts, lo, hi) == ts >= lo /\ ts <= hi

\* order_date >= lo AND order_date < hi
InMonthsBackWindow(ts, lo, hi) == ts >= lo /\ ts < hi

\* CTE customers_months_back: SELECT DISTINCT customer_id.
CustomersMonthsBack(mb) ==
    LET lo == MonthsBackStart(mb)
        hi == MonthsBackEnd(mb)
    IN  {orders[i].customer_id :
            i \in {j \in 1..Len(orders) : InMonthsBackWindow(orders[j].order_date, lo, hi)}}

\* CTE customers_recent: SELECT DISTINCT customer_id.
CustomersRecent ==
    LET lo == RecentStart
    IN  {orders[i].customer_id : i \in {j \in 1..Len(orders) : orders[j].order_date >= lo}}

\* CTE retention_data: the two scalar subqueries, the second counting the
\* rows of customers_months_back INNER JOIN customers_recent.
RetentionData(mb) ==
    LET cmb == CustomersMonthsBack(mb)
        cr == CustomersRecent
    IN  [total_past_customers |-> Cardinality(cmb),
         retained_customers |-> Cardinality({pr \in cmb \X cr : pr[1] = pr[2]})]

\* The Python guard and division.
customer_retention_rate(mb) ==
    /\ phase = "ready"
    /\ LET row == RetentionData(mb)
       IN  retention_result' =
             [called |-> TRUE,
              months_back |-> mb,
              value |-> IF row.total_past_customers > 0
                        THEN Frac(row.retained_customers * 100, row.total_past_customers)
                        ELSE Frac(0, 1)]
    /\ UNCHANGED <<tables, phase, more, abc_result, segments_result, trends_result, trends_sj_result>>

RetToday == MkDate(BaseYear + 1, 3, 31)

RetMonthsBack == {0, 1}

\* Order timestamps at and around the bounds of the windows.
RetDates ==
    {Midnight(MinusMonths(MinusMonths(RetToday, 1), 1)) - 1,
     Midnight(MinusMonths(MinusMonths(RetToday, 1), 1)),
     Midnight(MinusMonths(RetToday, 1)) - 1,
     Midnight(MinusMonths(RetToday, 1)),
     Midnight(RetToday) + 1}

InitRet ==
    /\ customers = SeedCustomers
    /\ categories = SeedCategories
    /\ products = SeedProducts
    /\ orders = <<>>
    /\ order_items = <<>>
    /\ today = RetToday
    /\ phase = "loading"
    /\ NoResults

NextRet ==
    \/ \E c \in 1..NumCustomers, ts \in RetDates : LoadOrder(c, ts, 100, MaxRetOrders)
    \/ FinishSetup
    \/ \E mb \in RetMonthsBack : customer_retention_rate(mb)

SpecRet == InitRet /\ [][NextRet]_vars

\* The distinct customers with an order whose timestamp is in [from, to).
Cohort(from, to) ==
    {c \in DOMAIN customers :
        \E i \in 1..Len(orders) :
            /\ orders[i].customer_id = c
            /\ from <= orders[i].order_date
            /\ orders[i].order_date < to}

\* A timestamp after every order.
EndOfTime == Midnight(DaysBeforeYear(BaseYear + 3))

\* Cohort A of a call: the one-month window that ends months_back months ago.
CohortA ==
    LET end == MinusMonths(today, retention_result.months_back)
        from == Midnight(MinusMonths(end, 1))
        to == Midnight(end)
    IN  Cohort(from, to)

\* Cohort B: the last month.
CohortB ==
    LET from == Midnight(MinusMonths(today, 1))
    IN  Cohort(from, EndOfTime)

\* C5: customer_retention_rate(months_back) returns |A /\ B| / |A| x 100,
\* a value between 0 and 100, when cohort A is not empty, and 0.0 when A is
\* empty, whatever orders the last month has.
C5_RetentionRate ==
    retention_result.called =>
      LET A == CohortA
          B == CohortB
      IN  /\ A # {} =>
                /\ retention_result.value.num * Cardinality(A)
                     = 100 * Cardinality(A \cap B) * retention_result.value.den
                /\ retention_result.value.num >= 0
                /\ FracLeq(retention_result.value, 100)
          /\ A = {} => retention_result.value = Frac(0, 1)

\* Witness of C5: a call with a non-empty cohort A of which a part only was
\* retained.
C5_Witness ==
    /\ retention_result.called
    /\ CohortA \cap CohortB # {}
    /\ CohortA \ CohortB # {}

\* A second case of C5: a call that returned 0.0 on an empty cohort A while
\* customers ordered in the last month.
C5_WitnessEmpty ==
    /\ retention_result.called
    /\ CohortA = {}
    /\ CohortB # {}
    /\ retention_result.value = Frac(0, 1)

(***************************************************************************)
(* CustomerAnalytics.segment_customers                                     *)
(***************************************************************************)
\* A NULL date (MIN / MAX over no rows).
NullDate == -1

SegmentNames == {"frequent", "big_spender", "at_risk", "new"}

\* The orders rows of customer c in the table ords.
OrdersOfCustomer(ords, c) == {i \in 1..Len(ords) : ords[i].customer_id = c}

\* The row of customer c in the view customer_order_summary over the
\* orders table ords: order count, amount spent, first and last order date.
CustomerOrderSummary(ords, c) ==
    LET I == OrdersOfCustomer(ords, c)
    IN  [customer_name |-> customers[c].customer_name,
         total_orders |-> Cardinality(I),
         total_spent |-> SumOver(I, [i \in I |-> ords[i].total_amount]),
         first_order_date |->
            IF I = {} THEN NullDate
            ELSE ords[CHOOSE i \in I : \A j \in I : ords[i].order_date <= ords[j].order_date].order_date,
         last_order_date |->
            IF I = {} THEN NullDate
            ELSE ords[CHOOSE i \in I : \A j \in I : ords[i].order_date >= ords[j].order_date].order_date]

\* HAVING COUNT(o.order_id) > 6.
FrequentHavingSix(n) == n > 6

\* HAVING COUNT(o.order_id) > 5
FrequentHaving(n) == n > 5

\* CTE frequent_customer: customers JOIN orders WHERE order_date >=
\* CURRENT_DATE - INTERVAL '6 months' GROUP BY customer HAVING COUNT > 5.
FrequentCustomers(ords) ==
    LET lo == Midnight(MinusMonths(today, 6))
    IN  {c \in DOMAIN customers :
            FrequentHaving(Cardinality({i \in OrdersOfCustomer(ords, c) : ords[i].order_date >= lo}))}

\* CTE big_spender: total_orders > 0 AND (total_spent / total_orders) > 200.
InBigSpender(row) == row.total_orders > 0 /\ row.total_spent > 200 * row.total_orders

\* The comparison of at_risk turned around.
InAtRiskAfter(row, bound) ==
    row.total_orders > 0 /\ row.last_order_date # NullDate /\ row.last_order_date > bound

\* CTE at_risk: total_orders > 0 AND last_order_date < CURRENT_DATE - INTERVAL '3 months'.
InAtRisk(row, bound) ==
    row.total_orders > 0 /\ row.last_order_date # NullDate /\ row.last_order_date < bound

\* CTE new: first_order_date > CURRENT_DATE - INTERVAL '1 month' (not true of NULL).
InNew(row, bound) == row.first_order_date # NullDate /\ row.first_order_date > bound

BigSpenderCustomers(ords) == {c \in DOMAIN customers : InBigSpender(CustomerOrderSummary(ords, c))}

AtRiskCustomers(ords) ==
    LET bound == Midnight(MinusMonths(today, 3))
    IN  {c \in DOMAIN customers : InAtRisk(CustomerOrderSummary(ords, c), bound)}

NewCustomers(ords) ==
    LET bound == Midnight(MinusMonths(today, 1))
    IN  {c \in DOMAIN customers : InNew(CustomerOrderSummary(ords, c), bound)}

\* The customers of one segment.
SegmentCustomers(seg, ords) ==
    IF seg = "frequent" THEN FrequentCustomers(ords)
    ELSE IF seg = "big_spender" THEN BigSpenderCustomers(ords)
    ELSE IF seg = "at_risk" THEN AtRiskCustomers(ords)
    ELSE NewCustomers(ords)

CustomerNames == {customers[c].customer_name : c \in DOMAIN customers}

\* The customer_name column of the rows of the customers in S.  The query
\* has no ORDER BY, so the order of a list is unspecified: a list is kept
\* as the number of times each name occurs in it.
NameList(S) ==
    [n \in CustomerNames |-> Cardinality({c \in S : customers[c].customer_name = n})]

\* The UNION ALL of the four CTEs, appended to the four lists.
segment_customers ==
    /\ phase = "ready"
    /\ segments_result' =
          [called |-> TRUE,
           frequent |-> NameList(SegmentCustomers("frequent", orders)),
           big_spender |-> NameList(SegmentCustomers("big_spender", orders)),
           at_risk |-> NameList(SegmentCustomers("at_risk", orders)),
           new |-> NameList(SegmentCustomers("new", orders))]
    /\ UNCHANGED <<tables, phase, more, abc_result, retention_result, trends_result, trends_sj_result>>

SegToday == MkDate(BaseYear + 1, 3, 31)

\* Kinds of orders, <<order_date, total_amount>>: just before and exactly
\* at CURRENT_DATE - 6 months, and today.
SegOrderKinds ==
    {<<Midnight(MinusMonths(SegToday, 6)) - 1, 300>>,
     <<Midnight(MinusMonths(SegToday, 6)), 300>>,
     <<Midnight(SegToday) + 1, 100>>,
     <<Midnight(SegToday) + 1, 300>>}

InitSeg ==
    /\ customers = SeedCustomers
    /\ categories = SeedCategories
    /\ products = SeedProducts
    /\ orders = <<>>
    /\ order_items = <<>>
    /\ today = SegToday
    /\ phase = "loading"
    /\ NoResults

NextSeg ==
    \/ \E c \in 1..NumCustomers, k \in SegOrderKinds : LoadOrder(c, k[1], k[2], MaxSegOrders)
    \/ FinishSetup
    \/ segment_customers

SpecSeg == InitSeg /\ [][NextSeg]_vars

(***************************************************************************)
(* Claims about segment_customers (checked under SpecSeg).                 *)
(***************************************************************************)
\* Number of orders of customer c dated within the last 6 months.
RecentOrderCount(c) ==
    LET lo == Midnight(MinusMonths(today, 6))
    IN  Cardinality({i \in 1..Len(orders) :
                        orders[i].customer_id = c /\ orders[i].order_date >= lo})

\* Number of orders of customer c dated before the last 6 months.
OlderOrderCount(c) == Cardinality({i \in 1..Len(orders) : orders[i].customer_id = c}) - RecentOrderCount(c)

\* C6: 'frequent' lists exactly the customers with more than 5 orders in
\* the last 6 months (one entry of the customer's name per such customer):
\* a customer with 6 or more is listed, one with 5 or fewer is not,
\* whatever older orders they have.
C6_FrequentIffMoreThanFive ==
    segments_result.called =>
      \A n \in CustomerNames :
        segments_result.frequent[n]
          = Cardinality({c \in DOMAIN customers :
                            customers[c].customer_name = n /\ RecentOrderCount(c) >= 6})

\* Witness of C6: a returned segmentation that lists a customer with
\* exactly 6 orders in the last 6 months and an older order, and does not
\* list the other customer of the same name.
C6_Witness ==
    /\ segments_result.called
    /\ \E c \in DOMAIN customers :
          /\ RecentOrderCount(c) = 6
          /\ OlderOrderCount(c) = 1
          /\ segments_result.frequent[customers[c].customer_name] = 1

\* The order histories of one customer: up to MaxSegOrders orders of the kinds loaded.
SegHistories == UNION {[1..n -> SegOrderKinds] : n \in 0..MaxSegOrders}

\* The orders table that holds the history h of customer 1 and nothing else.
HistoryOrders(h) ==
    [i \in 1..Len(h) |->
        [order_id |-> i, customer_id |-> 1, order_date |-> h[i][1],
         total_amount |-> h[i][2], status |-> "delivered"]]

SegmentPairs == {p \in SUBSET SegmentNames : Cardinality(p) = 2}

\* Some dataset has a customer that the query puts in both segments of the pair.
CanCoOccur(pair) ==
    \E h \in SegHistories : \A seg \in pair : 1 \in SegmentCustomers(seg, HistoryOrders(h))

\* C7 as stated: for every pair of distinct segments there is a dataset in
\* which one customer is listed under both (the datasets are the histories
\* of one customer; the formula does not depend on the loaded data, it is
\* evaluated before the load).
C7_EveryPairCoOccurs ==
    (phase = "loading" /\ orders = <<>>) => \A pair \in SegmentPairs : CanCoOccur(pair)

\* C7 as amended: every pair of distinct segments except {at_risk, new}
\* has a dataset in which one customer is listed under both, and no
\* returned segmentation lists a customer under both at_risk and new (the
\* entries of a name in the two lists never outnumber the customers of
\* that name).
C7_PairsExceptAtRiskNew ==
    /\ (phase = "loading" /\ orders = <<>>) =>
          \A pair \in SegmentPairs \ {{"at_risk", "new"}} : CanCoOccur(pair)
    /\ segments_result.called =>
          \A n \in CustomerNames :
            segments_result.at_risk[n] + segments_result.new[n]
              <= Cardinality({c \in DOMAIN customers : customers[c].customer_name = n})

\* Witness of C7: a returned segmentation in which the only customer with
\* orders is listed under frequent, big_spender and at_risk, while the
\* other customer is listed nowhere.
C7_Witness ==
    /\ segments_result.called
    /\ \E c \in DOMAIN customers :
          /\ \A i \in 1..Len(orders) : orders[i].customer_id = c
          /\ segments_result.frequent[customers[c].customer_name] = 1
          /\ segments_result.big_spender[customers[c].customer_name] = 1
          /\ segments_result.at_risk[customers[c].customer_name] = 1
          /\ segments_result.new[customers[c].customer_name] = 0

(***************************************************************************)
(* SalesAnalytics.monthly_trends and                                       *)
(* SalesAnalyticsAlternatives.monthly_trends_self_join                     *)
(***************************************************************************)
\* A NULL revenue (LAG before the first row, LEFT JOIN without a match).
NullRevenue == -1

\* All ascending, the elements of a finite set of integers.
RECURSIVE SortAsc(_)
SortAsc(S) ==
    IF S = {} THEN <<>>
    ELSE LET m == CHOOSE x \in S : \A y \in S : x <= y
         IN  <<m>> \o SortAsc(S \ {m})

\* The filter without the year.
InYearAny(ts, year) == TRUE

\* WHERE EXTRACT(YEAR FROM order_date) = year
InYear(ts, year) == ExtractYear(ts) = year

\* The orders rows of a year, and their months (the groups of GROUP BY).
OrdersInYear(year) == {i \in 1..Len(orders) : InYear(orders[i].order_date, year)}

MonthsInYear(year) == {ExtractMonth(orders[i].order_date) : i \in OrdersInYear(year)}

\* CTE monthly_data: month, SUM, COUNT and AVG of total_amount per month.
MonthlyData(year) ==
    LET I == OrdersInYear(year)
        mo == [i \in I |-> ExtractMonth(orders[i].order_date)]
        G(m) == {i \in I : mo[i] = m}
    IN  [m \in {mo[i] : i \in I} |->
            [month |-> m,
             revenue |-> SumOver(G(m), [i \in G(m) |-> orders[i].total_amount]),
             order_count |-> Cardinality(G(m)),
             avg_order_value |->
                Frac(SumOver(G(m), [i \in G(m) |-> orders[i].total_amount]), Cardinality(G(m)))]]

\* The CASE without the test for a zero previous revenue: the division
\* fails, the value is undefined.
GrowthRateUnguarded(revenue, prev) ==
    IF prev = NullRevenue THEN Frac(0, 1)
    ELSE IF prev = 0 THEN [num |-> 1, den |-> 0]
    ELSE Frac((revenue - prev) * 100, prev)

\* CASE WHEN prev IS NULL OR prev = 0 THEN 0 ELSE ((revenue - prev) / prev) * 100 END,
\* then `float(row[4]) if row[4] else 0.0`.
GrowthRate(revenue, prev) ==
    IF prev = NullRevenue \/ prev = 0 THEN Frac(0, 1)
    ELSE Frac((revenue - prev) * 100, prev)

\* LAG(revenue) OVER (ORDER BY month): the revenue of the row before, in
\* month order, among the rows of monthly_data.
LagRevenue(data, m) ==
    LET before == {k \in DOMAIN data : k < m}
    IN  IF before = {} THEN NullRevenue
        ELSE data[CHOOSE k \in before : \A j \in before : j <= k].revenue

\* The join made on the nearest earlier month instead.
SelfJoinRevenueNearest(data, m) == LagRevenue(data, m)

\* LEFT JOIN monthly_data previous ON current.month = previous.month + 1
SelfJoinRevenue(data, m) ==
    IF (m - 1) \in DOMAIN data THEN data[m - 1].revenue ELSE NullRevenue

\* The dict built for one row.
TrendRow(r, prev) ==
    [month |-> r.month,
     revenue |-> r.revenue,
     order_count |-> r.order_count,
     avg_order_value |-> r.avg_order_value,
     growth_rate |-> GrowthRate(r.revenue, prev)]

monthly_trends(year) ==
    /\ phase = "ready"
    /\ LET data == MonthlyData(year)
           ms == SortAsc(DOMAIN data)
       IN  trends_result' =
             [called |-> TRUE,
              year |-> year,
              rows |-> [i \in 1..Len(ms) |-> TrendRow(data[ms[i]], LagRevenue(data, ms[i]))]]
    /\ UNCHANGED <<tables, phase, more, abc_result, retention_result, segments_result, trends_sj_result>>

monthly_trends_self_join(year) ==
    /\ phase = "ready"
    /\ LET data == MonthlyData(year)
           ms == SortAsc(DOMAIN data)
       IN  trends_sj_result' =
             [called |-> TRUE,
              year |-> year,
              rows |-> [i \in 1..Len(ms) |-> TrendRow(data[ms[i]], SelfJoinRevenue(data, ms[i]))]]
    /\ UNCHANGED <<tables, phase, more, abc_result, retention_result, segments_result, trends_result>>

TrendToday == MkDate(BaseYear + 1, 12, 31)

TrendYears == {BaseYear, BaseYear + 1}

\* Order timestamps: the last moment of the year before, the last moment
\* of January, the first moment of February, and a day of March.
TrendDates ==
    {Midnight(MkDate(BaseYear, 12, 31)) + 1,
     Midnight(MkDate(BaseYear + 1, 1, 31)) + 1,
     Midnight(MkDate(BaseYear + 1, 2, 1)),
     Midnight(MkDate(BaseYear + 1, 3, 10)) + 1}

TrendAmounts == {0, 1000, 1500}

InitTrend ==
    /\ customers = SeedCustomers
    /\ categories = SeedCategories
    /\ products = SeedProducts
    /\ orders = <<>>
    /\ order_items = <<>>
    /\ today = TrendToday
    /\ phase = "loading"
    /\ NoResults

NextTrend ==
    \/ \E ts \in TrendDates, amount \in TrendAmounts : LoadOrder(1, ts, amount, MaxTrendOrders)
    \/ FinishSetup
    \/ \E year \in TrendYears : monthly_trends(year)
    \/ \E year \in TrendYears : monthly_trends_self_join(year)

SpecTrend == InitTrend /\ [][NextTrend]_vars

(***************************************************************************)
(* Claims about monthly_trends and monthly_trends_self_join (checked       *)
(* under SpecTrend).                                                       *)
(***************************************************************************)
\* Calendar month m of year y has at least one order.
HasOrders(y, m) ==
    \E i \in 1..Len(orders) :
        LET d == orders[i].order_date \div TicksPerDay
        IN  MkDate(y, m, 1) <= d /\ d < MkDate(y, m, 1) + DaysInMonth(y, m)

\* Sum of total_amount over the orders of calendar month m of year y.
RECURSIVE MonthRevenueFrom(_, _, _)
MonthRevenueFrom(y, m, i) ==
    IF i > Len(orders) THEN 0
    ELSE LET d == orders[i].order_date \div TicksPerDay
         IN  (IF MkDate(y, m, 1) <= d /\ d < MkDate(y, m, 1) + DaysInMonth(y, m)
              THEN orders[i].total_amount ELSE 0)
             + MonthRevenueFrom(y, m, i + 1)

MonthRevenue(y, m) == MonthRevenueFrom(y, m, 1)

\* C8: monthly_trends(year) returns one row per calendar month of the year
\* that has an order, in ascending month order, and no row for a month
\* without orders.
C8_OneRowPerMonthWithOrders ==
    trends_result.called =>
      LET rows == trends_result.rows
      IN  /\ \A i, j \in 1..Len(rows) : i < j => rows[i].month < rows[j].month
          /\ \A m \in 1..12 :
                HasOrders(trends_result.year, m) <=> \E i \in 1..Len(rows) : rows[i].month = m
          /\ \A i \in 1..Len(rows) : rows[i].month \in 1..12

\* Witness of C8: a year with orders in January and March only, and orders
\* in another year, for which exactly the two rows 1 and 3 were returned.
C8_Witness ==
    /\ trends_result.called
    /\ Len(trends_result.rows) = 2
    /\ trends_result.rows[1].month = 1
    /\ trends_result.rows[2].month = 3
    /\ \E i \in 1..Len(orders) : ExtractYear(orders[i].order_date) # trends_result.year

\* The growth rate of every row of rs is 0 when the row has no previous
\* row (prev = 0) or that row's revenue is 0, and the relative change in
\* percent otherwise; it is never a quotient by zero.
GrowthGuarded(rs, Prev(_)) ==
    \A i \in 1..Len(rs) :
        /\ rs[i].growth_rate.den # 0
        /\ IF Prev(i) = 0 \/ rs[Prev(i)].revenue = 0
           THEN rs[i].growth_rate.num = 0
           ELSE rs[i].growth_rate.num * rs[Prev(i)].revenue
                  = (rs[i].revenue - rs[Prev(i)].revenue) * 100 * rs[i].growth_rate.den

\* C9: in the rows of monthly_trends (previous row: the row before, by
\* LAG) and of monthly_trends_self_join (previous row: the row of the
\* calendar month before), growth_rate is 0 when there is no previous row
\* or its revenue is 0, and (revenue - previous) / previous x 100
\* otherwise; no data makes it a division by zero.
C9_GrowthRateZeroGuard ==
    /\ trends_result.called =>
          LET rs == trends_result.rows
              Prev(i) == i - 1
          IN  GrowthGuarded(rs, Prev)
    /\ trends_sj_result.called =>
          LET rs == trends_sj_result.rows
              Prev(i) == IF i > 1 /\ rs[i - 1].month = rs[i].month - 1 THEN i - 1 ELSE 0
          IN  GrowthGuarded(rs, Prev)

\* Witness of C9: rows returned by both methods in which a month follows a
\* month of revenue 0 and another follows a month of positive revenue.
C9_Witness ==
    /\ trends_result.called
    /\ trends_sj_result.called
    /\ trends_sj_result.rows = trends_result.rows
    /\ Len(trends_result.rows) = 3
    /\ trends_result.rows[1].revenue = 0
    /\ trends_result.rows[2].revenue > 0
    /\ trends_result.rows[3].growth_rate.num # 0

\* The two methods were called for the same year.
BothTrendsCalled ==
    /\ trends_result.called
    /\ trends_sj_result.called
    /\ trends_result.year = trends_sj_result.year

\* C10 as stated: whenever some calendar month of the year has no orders,
\* the two methods return different growth rates.
C10_DifferWheneverMonthMissing ==
    (BothTrendsCalled /\ \E m \in 1..12 : ~HasOrders(trends_result.year, m))
      => \E i \in 1..Len(trends_result.rows) :
            trends_result.rows[i].growth_rate # trends_sj_result.rows[i].growth_rate

\* A month with orders that follows a gap: the calendar month before it
\* has no orders, the nearest earlier month with orders has a revenue that
\* is neither 0 nor the month's own revenue.
GapChangesGrowth(y) ==
    \E m \in 3..12 : \E k \in 1..(m - 2) :
        /\ HasOrders(y, m)
        /\ HasOrders(y, k)
        /\ \A j \in (k + 1)..(m - 1) : ~HasOrders(y, j)
        /\ MonthRevenue(y, k) # 0
        /\ MonthRevenue(y, m) # MonthRevenue(y, k)

\* C10 as amended: the two methods return the same months, revenues,
\* counts and averages, and their growth rates differ exactly when a month
\* with orders follows a gap and the nearest earlier month with orders has
\* a revenue that is neither 0 nor equal to its own.
C10_DifferExactlyAfterGap ==
    BothTrendsCalled =>
      /\ Len(trends_result.rows) = Len(trends_sj_result.rows)
      /\ \A i \in 1..Len(trends_result.rows) :
            [trends_result.rows[i] EXCEPT !.growth_rate = Frac(0, 1)]
              = [trends_sj_result.rows[i] EXCEPT !.growth_rate = Frac(0, 1)]
      /\ (\E i \in 1..Len(trends_result.rows) :
              trends_result.rows[i].growth_rate # trends_sj_result.rows[i].growth_rate)
           <=> GapChangesGrowth(trends_result.year)

\* Witness of C10: January and March have orders, February has none, and
\* the two methods returned different growth rates for March.
C10_Witness ==
    /\ BothTrendsCalled
    /\ Len(trends_result.rows) = 2
    /\ trends_result.rows[1].month = 1
    /\ trends_result.rows[2].month = 3
    /\ trends_result.rows[2].growth_rate # Frac(0, 1)
    /\ trends_sj_result.rows[2].growth_rate = Frac(0, 1)


(***************************************************************************)
(* Database.execute_query, error path: a psycopg2.Error makes the handle   *)
(* roll the open transaction back and return None.  A statement that       *)
(* returns rows (cursor.description is set, as for INSERT ... RETURNING)   *)
(* is returned without a commit, so the rows it inserted stay in the open  *)
(* transaction until a later statement without a result set commits.       *)
(***************************************************************************)
RolledBackCustomers ==
    [c \in (DOMAIN customers) \ pending_customers |-> customers[c]]

ExecuteQueryError ==
    /\ customers' = RolledBackCustomers
    /\ pending_customers' = {}

(***************************************************************************)
(* A result variable holds the value a query returned for the tables as    *)
(* they are: the results are dropped when a call changes a table.          *)
(***************************************************************************)
OtherQueryResultsDropped ==
    /\ daily_report_result' = NoDailyReport
    /\ retention_alt_result' = NoRetentionAlt
    /\ clv_result' = NoClv
    /\ performance_result' = NoRows
    /\ dashboard_result' = NoDashboard
    /\ top_customers_result' = NoRows
    /\ order_status_result' = NoOrderStatus
    /\ abc_result' = NoAbc
    /\ retention_result' = NoRetention
    /\ segments_result' = NoSegments
    /\ trends_result' = NoTrends
    /\ trends_sj_result' = NoTrends

OtherResultsDropped ==
    /\ OtherQueryResultsDropped
    /\ UNCHANGED handle

ResultsDropped ==
    /\ anomalies_result' = NoAnomalies
    /\ OtherResultsDropped

(***************************************************************************)
(* SalesAnalytics.detect_anomalies                                         *)
(***************************************************************************)
AnomalyWindowDays == 90

\* WHERE order_date >= CURRENT_DATE - INTERVAL '90 days'
InLast90DaysStrict(ts) == ts > Midnight(today - AnomalyWindowDays)

InLast90Days(ts) == ts >= Midnight(today - AnomalyWindowDays)

\* CTE daily_sales: one row per DATE(order_date) of the window, as a
\* function from sale_date to daily_revenue.
SaleDates ==
    {DateOf(orders[i].order_date) : i \in {j \in DOMAIN orders : InLast90Days(orders[j].order_date)}}

DailyRevenue(d) ==
    LET I == {i \in DOMAIN orders :
                 InLast90Days(orders[i].order_date) /\ DateOf(orders[i].order_date) = d}
    IN  SumOver(I, [i \in I |-> orders[i].total_amount])

DailySales == [d \in SaleDates |-> DailyRevenue(d)]

\* CTE stats.  With n rows of sum S, AVG is S / n and STDDEV is the sample
\* standard deviation sqrt(sqdev / (n * n * (n - 1))), where sqdev is the
\* sum of (n * x - S)^2 over the rows; it is NULL for fewer than two rows.
Stats(ds) ==
    LET n == Cardinality(DOMAIN ds)
        S == SumOver(DOMAIN ds, ds)
    IN  [n |-> n, sum |-> S,
         sqdev |-> SumOver(DOMAIN ds, [d \in DOMAIN ds |-> (n * ds[d] - S) * (n * ds[d] - S)])]

MeanRevenue(st) == Frac(st.sum, st.n)

StddevIsNull(st) == st.n < 2

StddevIsZero(st) == st.n >= 2 /\ st.sqdev = 0

\* The square of ABS(daily_revenue - mean_revenue) / stddev_revenue, as an
\* exact fraction (the z-score itself is its square root).
ZScoreSquared(x, st) == Frac((st.n - 1) * (st.n * x - st.sum) * (st.n * x - st.sum), st.sqdev)

\* WHERE ... / st.stddev_revenue > 2 (a comparison with NULL selects no row).
ZScoreAboveTwo(x, st) ==
    /\ ~StddevIsNull(st)
    /\ (st.n - 1) * (st.n * x - st.sum) * (st.n * x - st.sum) > 4 * st.sqdev

\* 'spike' if row[1] > row[2] else 'drop'
AnomalyType(x, st) == IF x * st.n > st.sum THEN "spike" ELSE "drop"

AnomalyRow(d, x, st) ==
    [date |-> d, daily_revenue |-> x, mean_revenue |-> MeanRevenue(st),
     z_score_squared |-> ZScoreSquared(x, st), anomaly_type |-> AnomalyType(x, st)]

detect_anomalies ==
    /\ phase = "ready"
    /\ LET ds == DailySales
           st == Stats(ds)
       IN  IF StddevIsZero(st)
           THEN \* division by zero: the query fails, execute_query returns None
                /\ ExecuteQueryError
                /\ anomalies_result' = [called |-> TRUE, failed |-> TRUE, rows |-> <<>>]
                /\ OtherResultsDropped
                /\ UNCHANGED <<categories, products, orders, order_items, today>>
           ELSE /\ \E seq \in Perms({d \in DOMAIN ds : ZScoreAboveTwo(ds[d], st)}) :
                     /\ \A i \in 1..(Len(seq) - 1) :
                            ~FracLess(ZScoreSquared(ds[seq[i]], st), ZScoreSquared(ds[seq[i + 1]], st))
                     /\ anomalies_result' =
                            [called |-> TRUE, failed |-> FALSE,
                             rows |-> [i \in 1..Len(seq) |-> AnomalyRow(seq[i], ds[seq[i]], st)]]
                /\ UNCHANGED <<tables, pending_customers, results, later, clv_result,
                               performance_result, dashboard_result, top_customers_result,
                               order_status_result>>
    /\ UNCHANGED <<phase, api_result, id_seq>>

AnomToday == MkDate(BaseYear + 1, 3, 31)

\* Orders of the sample data: the last moment before the window, its first
\* moment, four days inside it, and two orders of today, one of amount 0.
AnomOrderKinds ==
    {<<Midnight(AnomToday - AnomalyWindowDays) - 1, 100>>,
     <<Midnight(AnomToday - AnomalyWindowDays), 100>>,
     <<Midnight(AnomToday - 60) + 1, 100>>,
     <<Midnight(AnomToday - 30), 100>>,
     <<Midnight(AnomToday - 7) + 1, 100>>,
     <<Midnight(AnomToday - 1), 100>>,
     <<Midnight(AnomToday), 0>>,
     <<Midnight(AnomToday) + 1, 100>>}

InitAnom ==
    /\ customers = SeedCustomers
    /\ categories = SeedCategories
    /\ products = SeedProducts
    /\ orders = <<>>
    /\ order_items = <<>>
    /\ today = AnomToday
    /\ phase = "loading"
    /\ NoResults

NextAnom ==
    \/ \E k \in AnomOrderKinds : LoadOrder(1, k[1], k[2], MaxAnomOrders)
    \/ FinishSetup
    \/ detect_anomalies

SpecAnom == InitAnom /\ [][NextAnom]_vars


(***************************************************************************)
(* Claims about detect_anomalies (checked under SpecAnom).                 *)
(***************************************************************************)
\* The days of the last 90 days that have orders, and their totals, read
\* directly from the orders table.
WindowOrders == {i \in DOMAIN orders : DateOf(orders[i].order_date) >= today - AnomalyWindowDays}

WindowDays == {DateOf(orders[i].order_date) : i \in WindowOrders}

DayTotal(d) ==
    LET I == {i \in WindowOrders : DateOf(orders[i].order_date) = d}
    IN  SumOver(I, [i \in I |-> orders[i].total_amount])

WindowTotal == SumOver(WindowOrders, [i \in WindowOrders |-> orders[i].total_amount])

\* n * (x - mean) for a day total x, n being the number of days.
ScaledDeviation(d) == Cardinality(WindowDays) * DayTotal(d) - WindowTotal

\* n * n * (n - 1) * variance: the sum of the squared scaled deviations.
ScaledSquares ==
    SumOver(WindowDays, [d \in WindowDays |-> ScaledDeviation(d) * ScaledDeviation(d)])

\* The standard deviation is defined and positive, and |x - mean| / stddev > 2,
\* i.e. (x - mean)^2 > 4 * variance.
MoreThanTwoStddevs(d) ==
    /\ Cardinality(WindowDays) >= 2
    /\ ScaledSquares > 0
    /\ (Cardinality(WindowDays) - 1) * ScaledDeviation(d) * ScaledDeviation(d) > 4 * ScaledSquares

\* C11: among the days of the last 90 days that have orders, detect_anomalies
\* returns a day exactly when its revenue is more than 2 sample standard
\* deviations from the mean of the per-day totals, once each, typed 'spike'
\* when its revenue is above the mean and 'drop' otherwise.
C11_AnomalyIffAboveTwoStddevs ==
    anomalies_result.called =>
        LET rows == anomalies_result.rows
        IN  /\ {rows[i].date : i \in DOMAIN rows} = {d \in WindowDays : MoreThanTwoStddevs(d)}
            /\ Len(rows) = Cardinality({rows[i].date : i \in DOMAIN rows})
            /\ \A i \in DOMAIN rows :
                   /\ rows[i].daily_revenue = DayTotal(rows[i].date)
                   /\ rows[i].anomaly_type =
                          IF ScaledDeviation(rows[i].date) > 0 THEN "spike" ELSE "drop"

\* A spike is returned while other days of the window are not.
C11_Witness ==
    /\ anomalies_result.called
    /\ \E i \in DOMAIN anomalies_result.rows : anomalies_result.rows[i].anomaly_type = "spike"
    /\ Cardinality(WindowDays) > Len(anomalies_result.rows)

\* A drop is returned, and an order before the window is left out.
C11_WitnessDrop ==
    /\ anomalies_result.called
    /\ \E i \in DOMAIN anomalies_result.rows : anomalies_result.rows[i].anomaly_type = "drop"
    /\ Cardinality(WindowOrders) < Len(orders)

\* C12: when the standard deviation is 0 or undefined (all days equal, or
\* fewer than two days), detect_anomalies returns the empty list and its
\* query does not fail with a division by zero.
C12_ZeroStddevIsGuarded ==
    (anomalies_result.called /\ (Cardinality(WindowDays) < 2 \/ ScaledSquares = 0)) =>
        /\ anomalies_result.rows = <<>>
        /\ ~anomalies_result.failed

\* The part of C12 that the code keeps: the returned list is empty.
C12_ZeroStddevGivesEmptyList ==
    (anomalies_result.called /\ (Cardinality(WindowDays) < 2 \/ ScaledSquares = 0)) =>
        anomalies_result.rows = <<>>

C12_WitnessUndefined ==
    /\ anomalies_result.called
    /\ Cardinality(WindowDays) = 1
    /\ ~anomalies_result.failed


(***************************************************************************)
(* AnalyticsAPI.get_customer_lifetime_value                                *)
(***************************************************************************)
\* round(float(x), 2) of a fraction, in hundredths; an exact tie goes to
\* the even hundredth.
Round2(f) ==
    LET n == f.num * 100
        q == n \div f.den
        r == n % f.den
    IN  IF 2 * r < f.den THEN q
        ELSE IF 2 * r > f.den THEN q + 1
        ELSE IF q % 2 = 0 THEN q ELSE q + 1

\* CTE customer_metrics: customers LEFT JOIN orders, one row per customer.
CustomerMetrics(c) ==
    LET I == OrdersOfCustomer(orders, c)
        total == SumOver(I, [i \in I |-> orders[i].total_amount])
    IN  [customer_id |-> c,
         customer_name |-> customers[c].customer_name,
         total_spent |-> total,
         total_orders |-> Cardinality(I),
         avg_order_value |-> IF I = {} THEN Frac(0, 1) ELSE Frac(total, Cardinality(I)),
         last_order_date |->
             IF I = {} THEN NullDate
             ELSE CHOOSE t \in {orders[i].order_date : i \in I} :
                      \A i \in I : orders[i].order_date <= t,
         first_order_date |->
             IF I = {} THEN NullDate
             ELSE CHOOSE t \in {orders[i].order_date : i \in I} :
                      \A i \in I : t <= orders[i].order_date]

\* EXTRACT(DAYS FROM (last_order_date - first_order_date)): the whole days
\* of the interval between the two timestamps.
ExtractDays(last, first) == (last - first) \div TicksPerDay

\* GREATEST(days / 365.0, 0.1)
YearsActiveFloorOne(days) == IF days >= 365 THEN Frac(days, 365) ELSE Frac(1, 1)

YearsActive(days) == IF days * 10 > 365 THEN Frac(days, 365) ELSE Frac(1, 10)

\* total_orders / GREATEST(...), behind the CASE guards of customer_clv.
OrderFrequencyPerYear(m) ==
    IF m.total_orders = 0 \/ m.first_order_date = NullDate THEN Frac(0, 1)
    ELSE LET y == YearsActive(ExtractDays(m.last_order_date, m.first_order_date))
         IN  Frac(m.total_orders * y.den, y.num)

\* avg_order_value * (total_orders / GREATEST(...)) * 2
PredictedClv(m) ==
    IF m.total_orders = 0 \/ m.first_order_date = NullDate THEN Frac(0, 1)
    ELSE LET f == OrderFrequencyPerYear(m)
         IN  Frac(m.avg_order_value.num * f.num * 2, m.avg_order_value.den * f.den)

ClvLimit == 100

ClvRow(m) ==
    [customer_id |-> m.customer_id,
     customer_name |-> m.customer_name,
     total_spent |-> m.total_spent,
     total_orders |-> m.total_orders,
     avg_order_value |-> m.avg_order_value,
     order_frequency_per_year |-> Round2(OrderFrequencyPerYear(m)),
     predicted_clv |-> Round2(PredictedClv(m)),
     last_order_date |-> IF m.last_order_date = NullDate THEN NullDate
                         ELSE DateOf(m.last_order_date)]

\* FROM customers c LEFT JOIN orders o
ClvCustomersWithOrders == {c \in DOMAIN customers : OrdersOfCustomer(orders, c) # {}}

ClvCustomers == DOMAIN customers

\* customer_id = 0 stands for None (every customer); `if customer_id:`
\* adds the WHERE clause.
get_customer_lifetime_value(customer_id) ==
    /\ phase = "ready"
    /\ LET selected == IF customer_id # 0 THEN ClvCustomers \cap {customer_id} ELSE ClvCustomers
           metrics == [c \in selected |-> CustomerMetrics(c)]
           clv == [c \in selected |-> PredictedClv(metrics[c])]
       IN  \E seq \in Perms(selected) :
               /\ \A i \in 1..(Len(seq) - 1) : ~FracLess(clv[seq[i]], clv[seq[i + 1]])
               /\ clv_result' =
                      [called |-> TRUE, customer_id |-> customer_id,
                       rows |-> [i \in 1..Min2(Len(seq), ClvLimit) |-> ClvRow(metrics[seq[i]])]]
    /\ UNCHANGED <<tables, phase, results, later, pending_customers, anomalies_result,
                   performance_result, dashboard_result, top_customers_result,
                   order_status_result, api_result, id_seq>>

ClvToday == MkDate(BaseYear + 1, 6, 30)

\* Order timestamps: a first order, one 36 days and a half later (0.1 year
\* is 36.5 days), one 37 days later.
ClvDates ==
    {Midnight(MkDate(BaseYear + 1, 1, 10)),
     Midnight(MkDate(BaseYear + 1, 1, 10) + 36) + 1,
     Midnight(MkDate(BaseYear + 1, 1, 10) + 37)}

ClvAmounts == {100, 250}

InitClv ==
    /\ customers = SeedCustomers
    /\ categories = SeedCategories
    /\ products = SeedProducts
    /\ orders = <<>>
    /\ order_items = <<>>
    /\ today = ClvToday
    /\ phase = "loading"
    /\ NoResults

NextClv ==
    \/ \E c \in 1..NumCustomers, ts \in ClvDates, amount \in ClvAmounts :
           LoadOrder(c, ts, amount, MaxClvOrders)
    \/ FinishSetup
    \/ \E customer_id \in 0..(NumCustomers + 1) : get_customer_lifetime_value(customer_id)

SpecClv == InitClv /\ [][NextClv]_vars

(***************************************************************************)
(* Claims about get_customer_lifetime_value (checked under SpecClv).       *)
(***************************************************************************)
ClvRowsOf(c) ==
    {i \in DOMAIN clv_result.rows : clv_result.rows[i].customer_id = c}

ClvAsked(c) == clv_result.called /\ clv_result.customer_id \in {0, c}

\* C13: a customer with exactly one order gets years_active floored to 0.1,
\* so that predicted_clv is 20 times the amount of that order (its
\* avg_order_value) and order_frequency_per_year is 10; values in hundredths.
C13_SingleOrderClvIsTwentyTimes ==
    \A c \in DOMAIN customers :
        (ClvAsked(c) /\ Cardinality(OrdersOfCustomer(orders, c)) = 1) =>
            /\ Cardinality(ClvRowsOf(c)) = 1
            /\ \A i \in ClvRowsOf(c) :
                   LET amount == orders[CHOOSE j \in OrdersOfCustomer(orders, c) : TRUE].total_amount
                   IN  /\ clv_result.rows[i].avg_order_value = Frac(amount, 1)
                       /\ clv_result.rows[i].predicted_clv = 20 * amount * 100
                       /\ clv_result.rows[i].order_frequency_per_year = 10 * 100

C13_Witness ==
    \E c \in DOMAIN customers :
        /\ ClvAsked(c)
        /\ Cardinality(OrdersOfCustomer(orders, c)) = 1
        /\ \E i \in ClvRowsOf(c) : clv_result.rows[i].predicted_clv = 20 * 250 * 100

\* C14: every customer with zero orders gets predicted_clv = 0 and
\* order_frequency_per_year = 0 (and total_orders = 0, no last order date):
\* the row is there, no division or null date stands in its way.
C14_NoOrdersClvIsZero ==
    \A c \in DOMAIN customers :
        (ClvAsked(c) /\ OrdersOfCustomer(orders, c) = {}) =>
            /\ Cardinality(ClvRowsOf(c)) = 1
            /\ \A i \in ClvRowsOf(c) :
                   /\ clv_result.rows[i].predicted_clv = 0
                   /\ clv_result.rows[i].order_frequency_per_year = 0
                   /\ clv_result.rows[i].total_orders = 0
                   /\ clv_result.rows[i].total_spent = 0
                   /\ clv_result.rows[i].last_order_date = NullDate

\* A customer without orders is listed, last, after one with orders.
C14_Witness ==
    /\ clv_result.called
    /\ Len(clv_result.rows) = Cardinality(DOMAIN customers)
    /\ clv_result.rows[1].predicted_clv > 0
    /\ OrdersOfCustomer(orders, clv_result.rows[Len(clv_result.rows)].customer_id) = {}


(***************************************************************************)
(* SalesAnalytics.product_performance                                      *)
(***************************************************************************)
\* products p JOIN categories c LEFT JOIN order_items oi, grouped by product.
PerformanceProducts == {p \in DOMAIN products : products[p].category_id \in DOMAIN categories}

ItemsOfProduct(p) == {i \in DOMAIN order_items : order_items[i].product_id = p}

\* COALESCE(SUM(oi.total_price), 0)
PerformanceRevenue(p) ==
    SumOver(ItemsOfProduct(p), [i \in ItemsOfProduct(p) |-> order_items[i].total_price])

\* COALESCE(SUM(oi.quantity), 0)
PerformanceUnits(p) ==
    SumOver(ItemsOfProduct(p), [i \in ItemsOfProduct(p) |-> order_items[i].quantity])

\* float(row[4]) if row[4] else None: NULL and a rating of 0 are both falsy.
AvgRating(rating) == IF rating = NullRating \/ rating = 0 THEN NullRating ELSE rating

PerformanceRow(p) ==
    [product_name |-> products[p].product_name,
     category |-> categories[products[p].category_id].category_name,
     total_revenue |-> PerformanceRevenue(p),
     units_sold |-> PerformanceUnits(p),
     avg_rating |-> AvgRating(products[p].average_rating)]

product_performance ==
    /\ phase = "ready"
    /\ \E seq \in Perms(PerformanceProducts) :
           /\ \A i \in 1..(Len(seq) - 1) :
                  PerformanceRevenue(seq[i]) >= PerformanceRevenue(seq[i + 1])
           /\ performance_result' =
                  [called |-> TRUE, rows |-> [i \in 1..Len(seq) |-> PerformanceRow(seq[i])]]
    /\ UNCHANGED <<tables, phase, results, later, pending_customers, anomalies_result, clv_result,
                   dashboard_result, top_customers_result, order_status_result, api_result, id_seq>>

NextPerf ==
    \/ \E p \in 1..NumProducts, q \in ItemQuantities : LoadItem(p, q)
    \/ FinishSetup
    \/ product_performance

SpecPerf == InitAbc /\ [][NextPerf]_vars

(***************************************************************************)
(* Claims about product_performance (checked under SpecPerf).              *)
(***************************************************************************)
ItemsUnitsFrom(p, i) ==
    IF i > Len(order_items) THEN 0
    ELSE (IF order_items[i].product_id = p THEN order_items[i].quantity ELSE 0)
         + ItemsUnitsFrom(p, i + 1)

\* The rows are the products, one row each: some order of the products
\* matches the rows one to one on name, revenue and units sold.
RowsMatchProducts(RatingOk(_, _)) ==
    \E seq \in Perms(DOMAIN products) :
        /\ Len(seq) = Len(performance_result.rows)
        /\ \A i \in DOMAIN seq :
               LET row == performance_result.rows[i]
               IN  /\ row.product_name = products[seq[i]].product_name
                   /\ row.total_revenue = ItemsRevenue(seq[i])
                   /\ row.units_sold = ItemsUnitsFrom(seq[i], 1)
                   /\ RatingOk(row, products[seq[i]])

OwnRating(row, product) == row.avg_rating = product.average_rating

AnyRating(row, product) == TRUE

\* C15: product_performance returns exactly one row per product, products
\* without order items included with total_revenue = 0 and units_sold = 0,
\* and every row's avg_rating is the product's own average_rating, None
\* only when the product has no rating.
C15_OneRowPerProductOwnRating ==
    performance_result.called => RowsMatchProducts(OwnRating)

\* The part of C15 about the rows, revenue and units, the rating left aside.
C15_OneRowPerProduct ==
    performance_result.called => RowsMatchProducts(AnyRating)

\* Every product of one category is without order items while the other
\* category has sales.
C15_WitnessEmptyCategory ==
    /\ performance_result.called
    /\ \E k \in DOMAIN categories :
           \A p \in DOMAIN products : products[p].category_id = k => ItemsOfProduct(p) = {}
    /\ order_items # <<>>


(***************************************************************************)
(* AnalyticsAPI.get_dashboard_metrics.  The geographic distribution reads  *)
(* customers.city, which the model does not hold, and is left out.         *)
(***************************************************************************)
\* date_mappings.get(date_range, 30)
DashboardDays(date_range) ==
    IF date_range = "last_7_days" THEN 7
    ELSE IF date_range = "last_30_days" THEN 30
    ELSE IF date_range = "last_90_days" THEN 90
    ELSE IF date_range = "last_365_days" THEN 365
    ELSE 30

\* CTE current_period: order_date >= CURRENT_DATE - days.
CurrentPeriod(days) == {i \in DOMAIN orders : orders[i].order_date >= Midnight(today - days)}

\* CTE previous_period: CURRENT_DATE - 2 * days <= order_date < CURRENT_DATE - days.
PreviousPeriod(days) ==
    {i \in DOMAIN orders :
        /\ orders[i].order_date >= Midnight(today - 2 * days)
        /\ orders[i].order_date < Midnight(today - days)}

\* SUM(total_amount): NULL over no rows.
PeriodSales(I) ==
    IF I = {} THEN NullRevenue ELSE SumOver(I, [i \in I |-> orders[i].total_amount])

\* COUNT(DISTINCT order_id), COUNT(DISTINCT customer_id)
PeriodOrders(I) == Cardinality({orders[i].order_id : i \in I})

PeriodCustomers(I) == Cardinality({orders[i].customer_id : i \in I})

\* float(row[k]) if row[k] else 0
SalesOrZero(sales) == IF sales = NullRevenue \/ sales = 0 THEN 0 ELSE sales

\* ((current - previous) / previous * 100) if previous > 0 else 0
DashboardGrowthOfCurrent(current, previous) ==
    IF current > 0 THEN Frac((current - previous) * 100, current) ELSE Frac(0, 1)

DashboardGrowth(current, previous) ==
    IF previous > 0 THEN Frac((current - previous) * 100, previous) ELSE Frac(0, 1)

\* Top products: orders JOIN order_items JOIN products over the current
\* period, by revenue, at most 5.
TopProductsLimit == 5

TopProductItems(days, p) ==
    {k \in DOMAIN order_items :
        /\ order_items[k].product_id = p
        /\ \E i \in CurrentPeriod(days) : orders[i].order_id = order_items[k].order_id}

TopProductRevenue(days, p) ==
    SumOver(TopProductItems(days, p), [k \in TopProductItems(days, p) |-> order_items[k].total_price])

get_dashboard_metrics(date_range) ==
    /\ phase = "ready"
    /\ LET days == DashboardDays(date_range)
           current_sales == SalesOrZero(PeriodSales(CurrentPeriod(days)))
           current_orders == PeriodOrders(CurrentPeriod(days))
           current_customers == PeriodCustomers(CurrentPeriod(days))
           previous_sales == SalesOrZero(PeriodSales(PreviousPeriod(days)))
           previous_orders == PeriodOrders(PreviousPeriod(days))
           previous_customers == PeriodCustomers(PreviousPeriod(days))
           sold == {p \in DOMAIN products : TopProductItems(days, p) # {}}
       IN  \E seq \in Perms(sold) :
               /\ \A i \in 1..(Len(seq) - 1) :
                      TopProductRevenue(days, seq[i]) >= TopProductRevenue(days, seq[i + 1])
               /\ dashboard_result' =
                      [called |-> TRUE,
                       date_range |-> date_range,
                       total_sales |-> current_sales,
                       total_orders |-> current_orders,
                       total_customers |-> current_customers,
                       sales_growth |-> Round2(DashboardGrowth(current_sales, previous_sales)),
                       orders_growth |-> Round2(DashboardGrowth(current_orders, previous_orders)),
                       customers_growth |->
                           Round2(DashboardGrowth(current_customers, previous_customers)),
                       top_products |->
                           [i \in 1..Min2(Len(seq), TopProductsLimit) |->
                               [product_name |-> products[seq[i]].product_name,
                                revenue |-> TopProductRevenue(days, seq[i])]]]
    /\ UNCHANGED <<tables, phase, results, later, pending_customers, anomalies_result, clv_result,
                   performance_result, top_customers_result, order_status_result, api_result, id_seq>>

DashToday == MkDate(BaseYear + 1, 6, 30)

DashRanges == {"last_7_days", "last_30_days", "all_time"}

\* Order timestamps: the first moment of the last 7 days and the moment
\* before it, the first moment of the 7 days before those, and the moment
\* before the last 30 days.
DashDates ==
    {Midnight(DashToday - 7),
     Midnight(DashToday - 7) - 1,
     Midnight(DashToday - 14),
     Midnight(DashToday - 30) - 1}

DashAmounts == {0, 100, 300}

InitDash ==
    /\ customers = SeedCustomers
    /\ categories = SeedCategories
    /\ products = SeedProducts
    /\ orders = <<>>
    /\ order_items = <<>>
    /\ today = DashToday
    /\ phase = "loading"
    /\ NoResults

NextDash ==
    \/ \E c \in 1..NumCustomers, ts \in DashDates, amount \in DashAmounts :
           LoadOrder(c, ts, amount, MaxDashOrders)
    \/ FinishSetup
    \/ \E date_range \in DashRanges : get_dashboard_metrics(date_range)

SpecDash == InitDash /\ [][NextDash]_vars

(***************************************************************************)
(* Claims about get_dashboard_metrics (checked under SpecDash).            *)
(***************************************************************************)
\* The orders placed from day `from` on and before day `to`.
OrdersBetween(from, to) ==
    {i \in DOMAIN orders : from <= DateOf(orders[i].order_date) /\ DateOf(orders[i].order_date) < to}

\* A period's metric, missing (NullRevenue) when the period has no orders.
SalesOf(I) == IF I = {} THEN NullRevenue ELSE SumOver(I, [i \in I |-> orders[i].total_amount])

OrdersOf(I) == IF I = {} THEN NullRevenue ELSE Cardinality(I)

CustomersOf(I) == IF I = {} THEN NullRevenue ELSE Cardinality({orders[i].customer_id : i \in I})

ZeroIfMissing(x) == IF x = NullRevenue THEN 0 ELSE x

DashCurrent == OrdersBetween(today - DashboardDays(dashboard_result.date_range), today + 1)

DashPrevious ==
    OrdersBetween(today - 2 * DashboardDays(dashboard_result.date_range),
                  today - DashboardDays(dashboard_result.date_range))

C18_WitnessZero ==
    /\ dashboard_result.called
    /\ DashPrevious # {}
    /\ SalesOf(DashPrevious) = 0
    /\ SalesOf(DashCurrent) > 0
    /\ dashboard_result.sales_growth = 0


(***************************************************************************)
(* The order API: UserAPI.create_user, OrderAPI.create_order,              *)
(* get_order_status and cancel_order.  An e-mail address is a sequence of  *)
(* characters.  A customers row is [customer_name, email]; an orders row   *)
(* written by the API also has tax_amount, shipping_cost and notes.        *)
(***************************************************************************)
HasChar(str, ch) == \E i \in DOMAIN str : str[i] = ch

\* format_api_response(False, error=...): no table and no sequence changes.
Rejected(op, id, error) ==
    /\ api_result' = [op |-> op, success |-> FALSE, id |-> id, error |-> error]
    /\ UNCHANGED <<tables, phase, results, later, pending_customers, anomalies_result, clv_result,
                   performance_result, dashboard_result, top_customers_result,
                   order_status_result, id_seq>>

\* SELECT customer_id FROM customers WHERE email = %s, on the handle's own
\* connection: rows inserted and not yet committed are seen.
EmailExistsCommitted(email) ==
    \E c \in (DOMAIN customers) \ pending_customers : customers[c].email = email

EmailExists(email) == \E c \in DOMAIN customers : customers[c].email = email

\* user_data is [customer_name, email], "" and <<>> standing for a missing field.
create_user(user_data) ==
    /\ phase = "ready"
    /\ IF user_data.customer_name = "" \/ user_data.email = <<>>
       THEN Rejected("create_user", 0, "Missing required fields")
       ELSE IF ~HasChar(user_data.email, "@") \/ ~HasChar(user_data.email, ".")
       THEN Rejected("create_user", 0, "Invalid email format")
       ELSE IF EmailExists(user_data.email)
       THEN Rejected("create_user", 0, "Email already exists")
       ELSE \* INSERT ... RETURNING customer_id: rows come back, no commit
            LET user_id == id_seq.customers + 1
            IN  /\ user_id <= MaxCustomerIds
                /\ customers' =
                       [c \in (DOMAIN customers) \cup {user_id} |->
                           IF c = user_id
                           THEN [customer_name |-> user_data.customer_name,
                                 email |-> user_data.email]
                           ELSE customers[c]]
                /\ pending_customers' = pending_customers \cup {user_id}
                /\ id_seq' = [id_seq EXCEPT !.customers = user_id]
                /\ api_result' = [op |-> "create_user", success |-> TRUE, id |-> user_id, error |-> ""]
                /\ ResultsDropped
                /\ UNCHANGED <<categories, products, orders, order_items, today, phase>>

\* tax_amount = subtotal * 0.08 (the prices of the model make it a whole number)
TaxRatePercent == 8

TaxAmount(subtotal) == (subtotal * TaxRatePercent) \div 100

\* shipping_cost = 10.0 if subtotal < 100 else 0.0
ShippingCost(subtotal) == IF subtotal < 100 THEN 10 ELSE 0

Subtotal(items) ==
    SumOver(DOMAIN items, [i \in DOMAIN items |-> items[i].quantity * products[items[i].product_id].price])

\* The time of an insert: order_date is left to the column's default.
Now == Midnight(today) + 1

\* One pass of the loop over the items: the message appended for an item,
\* "" when the item passes.
ItemError(item) ==
    IF item.quantity <= 0 THEN "Invalid quantity for product"
    ELSE IF item.product_id \notin DOMAIN products THEN "Product not found"
    ELSE IF products[item.product_id].stock_quantity < item.quantity
    THEN "Insufficient stock for product"
    ELSE ""

\* "; ".join(inventory_errors), represented by its first message.
InventoryErrors(items) ==
    ItemError(items[CHOOSE i \in DOMAIN items :
                        /\ ItemError(items[i]) # ""
                        /\ \A j \in 1..(i - 1) : ItemError(items[j]) = ""])

\* items is a sequence of [product_id, quantity]; customer_id 0 and the
\* empty sequence stand for a missing field.  failed is the set of INSERT
\* statements the database fails: 0 is the INSERT INTO orders, i >= 1 the
\* INSERT of item i.  execute_query rolls a failed statement back and
\* returns None; the order's row is in the open transaction until the
\* first INSERT of an item commits it, and without the order's row the
\* INSERTs of its items fail as well.
create_order_db(customer_id, items, failed) ==
    /\ phase = "ready"
    /\ IF customer_id = 0 \/ items = <<>>
       THEN Rejected("create_order", 0, "Missing required fields")
       ELSE IF customer_id \notin DOMAIN customers
       THEN Rejected("create_order", 0, "Customer not found")
       ELSE IF Cardinality({p \in DOMAIN products : \E i \in DOMAIN items : items[i].product_id = p})
                   # Len(items)
       THEN Rejected("create_order", 0, "One or more products not found")
       ELSE IF \E i \in DOMAIN items : ItemError(items[i]) # ""
       THEN Rejected("create_order", 0, InventoryErrors(items))
       ELSE IF 0 \in failed
       THEN \* if not order_result: return ... "Failed to create order"
            /\ ExecuteQueryError
            /\ api_result' = [op |-> "create_order", success |-> FALSE, id |-> 0,
                              error |-> "Failed to create order"]
            /\ ResultsDropped
            /\ UNCHANGED <<categories, products, orders, order_items, today, phase, id_seq>>
       ELSE IF 1 \in failed
       THEN \* the first item's INSERT fails: the rollback takes the order's row
            /\ id_seq.orders < MaxApiOrders + 1
            /\ ExecuteQueryError
            /\ id_seq' = [id_seq EXCEPT !.orders = id_seq.orders + 1]
            /\ api_result' = [op |-> "create_order", success |-> TRUE,
                              id |-> id_seq.orders + 1, error |-> ""]
            /\ ResultsDropped
            /\ UNCHANGED <<categories, products, orders, order_items, today, phase>>
       ELSE LET subtotal == Subtotal(items)
                order_id == id_seq.orders + 1
                stored == [i \in 1..Len(items) |-> i \notin failed]
            IN  /\ Len(orders) < MaxApiOrders
                /\ id_seq.orders < MaxApiOrders + 1
                /\ orders' =
                       Append(orders,
                              [order_id |-> order_id,
                               customer_id |-> customer_id,
                               order_date |-> Now,
                               total_amount |-> subtotal + TaxAmount(subtotal) + ShippingCost(subtotal),
                               tax_amount |-> TaxAmount(subtotal),
                               shipping_cost |-> ShippingCost(subtotal),
                               status |-> "confirmed",
                               notes |-> <<>>])
                /\ order_items' =
                       order_items \o
                       SelectSeq([i \in 1..Len(items) |->
                                     [order_item_id |-> id_seq.order_items + i,
                                      order_id |-> order_id,
                                      product_id |-> items[i].product_id,
                                      quantity |-> items[i].quantity,
                                      unit_price |-> products[items[i].product_id].price,
                                      total_price |->
                                          items[i].quantity * products[items[i].product_id].price]],
                                 LAMBDA it : stored[it.order_item_id - id_seq.order_items])
                \* the INSERTs into order_items commit the open transaction
                /\ pending_customers' = {}
                /\ id_seq' = [id_seq EXCEPT !.orders = order_id,
                                            !.order_items = id_seq.order_items + Len(items)]
                /\ api_result' = [op |-> "create_order", success |-> TRUE, id |-> order_id, error |-> ""]
                /\ ResultsDropped
                /\ UNCHANGED <<customers, categories, products, today, phase>>

\* create_order on a database that fails no statement.
create_order(customer_id, items) == create_order_db(customer_id, items, {})

\* orders o JOIN customers c WHERE o.order_id = %s, then the order's items
\* JOIN products (a set: the query has no ORDER BY).
get_order_status(order_id) ==
    /\ phase = "ready"
    /\ LET found == {i \in DOMAIN orders :
                        orders[i].order_id = order_id /\ orders[i].customer_id \in DOMAIN customers}
       IN  IF found = {}
           THEN order_status_result' =
                    [called |-> TRUE, order_id |-> order_id, found |-> FALSE, status |-> "",
                     total_amount |-> 0, items |-> {}]
           ELSE LET o == orders[CHOOSE i \in found : TRUE]
                IN  order_status_result' =
                        [called |-> TRUE, order_id |-> order_id, found |-> TRUE,
                         status |-> o.status, total_amount |-> o.total_amount,
                         items |-> {[product_id |-> order_items[k].product_id,
                                     product_name |-> products[order_items[k].product_id].product_name,
                                     quantity |-> order_items[k].quantity,
                                     unit_price |-> order_items[k].unit_price,
                                     total_price |-> order_items[k].total_price] :
                                       k \in {j \in DOMAIN order_items :
                                                 /\ order_items[j].order_id = order_id
                                                 /\ order_items[j].product_id \in DOMAIN products}}]
    /\ UNCHANGED <<tables, phase, results, later, pending_customers, anomalies_result, clv_result,
                   performance_result, dashboard_result, top_customers_result, api_result, id_seq>>

\* if current_status in ['shipped', 'delivered', 'cancelled']
NotCancellableExceptCancelled(status) == status \in {"shipped", "delivered"}

NotCancellable(status) == status \in {"shipped", "delivered", "cancelled"}

CancelReasons == {"changed my mind"}

cancel_order(order_id, reason) ==
    /\ phase = "ready"
    /\ LET found == {i \in DOMAIN orders : orders[i].order_id = order_id}
       IN  IF found = {}
           THEN Rejected("cancel_order", order_id, "Order not found")
           ELSE IF NotCancellable(orders[CHOOSE i \in found : TRUE].status)
           THEN Rejected("cancel_order", order_id, "Cannot cancel order with status")
           ELSE \* UPDATE orders ..., then DELETE FROM order_items; each commits
                /\ orders' =
                       [i \in DOMAIN orders |->
                           IF i \in found
                           THEN [orders[i] EXCEPT !.status = "cancelled",
                                                  !.notes = Append(@, <<"Cancelled: ", reason>>)]
                           ELSE orders[i]]
                /\ order_items' =
                       SelectSeq(order_items, LAMBDA it : it.order_id # order_id)
                /\ pending_customers' = {}
                /\ api_result' = [op |-> "cancel_order", success |-> TRUE, id |-> order_id, error |-> ""]
                /\ ResultsDropped
                /\ UNCHANGED <<customers, categories, products, today, phase, id_seq>>


(***************************************************************************)
(* CustomerAnalytics.get_top_customers                                     *)
(***************************************************************************)
\* COALESCE(SUM(o.total_amount), 0) over customers LEFT JOIN orders
TotalSpent(c) ==
    SumOver(OrdersOfCustomer(orders, c), [i \in OrdersOfCustomer(orders, c) |-> orders[i].total_amount])

get_top_customers(limit) ==
    /\ phase = "ready"
    /\ \E seq \in Perms(DOMAIN customers) :
           /\ \A i \in 1..(Len(seq) - 1) : TotalSpent(seq[i]) >= TotalSpent(seq[i + 1])
           /\ top_customers_result' =
                  [called |-> TRUE,
                   rows |-> [i \in 1..Min2(Len(seq), limit) |->
                                [customer_name |-> customers[seq[i]].customer_name,
                                 total_spent |-> TotalSpent(seq[i]),
                                 order_count |-> Cardinality(OrdersOfCustomer(orders, seq[i]))]]]
    /\ UNCHANGED <<tables, phase, results, later, pending_customers, anomalies_result, clv_result,
                   performance_result, dashboard_result, order_status_result, api_result, id_seq>>

(***************************************************************************)
(* The data the API calls start from: one customer, two products and two   *)
(* orders of one item each, placed on two days of the last 90 days, one    *)
(* shipped and one delivered.                                              *)
(***************************************************************************)
EmailAlice == <<"a", "@", "x", ".", "y">>

EmailBob == <<"b", "@", "x", ".", "y">>

ApiCustomers == [c \in {1} |-> [customer_name |-> "alice", email |-> EmailAlice]]

NumApiProducts == 2

\* Prices 25 and 100: the tax of every subtotal is a whole number, and a
\* subtotal of exactly 100 ships free.
ApiProducts ==
    [p \in 1..NumApiProducts |->
        [product_name |-> ProductNameOf(p),
         category_id |-> p,
         price |-> IF p = 1 THEN 25 ELSE 100,
         average_rating |-> RatingOf(p),
         stock_quantity |-> IF p = 1 THEN 2 ELSE 1]]

ApiToday == MkDate(BaseYear + 1, 3, 31)

ApiSeedOrder(order_id, ts, status) ==
    [order_id |-> order_id,
     customer_id |-> 1,
     order_date |-> ts,
     total_amount |-> 25 + TaxAmount(25) + ShippingCost(25),
     tax_amount |-> TaxAmount(25),
     shipping_cost |-> ShippingCost(25),
     status |-> status,
     notes |-> <<>>]

ApiSeedItem(order_id) ==
    [order_item_id |-> order_id, order_id |-> order_id, product_id |-> 1, quantity |-> 1,
     unit_price |-> 25, total_price |-> 25]

InitApi ==
    /\ customers = ApiCustomers
    /\ categories = SeedCategories
    /\ products = ApiProducts
    /\ orders = <<ApiSeedOrder(1, Midnight(ApiToday - 10) + 1, "shipped"),
                  ApiSeedOrder(2, Midnight(ApiToday - 5), "delivered")>>
    /\ order_items = <<ApiSeedItem(1), ApiSeedItem(2)>>
    /\ today = ApiToday
    /\ phase = "ready"
    /\ NoQueryResults
    /\ HandleInUse
    /\ pending_customers = {}
    /\ id_seq = [customers |-> 1, orders |-> 2, order_items |-> 2]

UserInputs ==
    {[customer_name |-> "bob", email |-> EmailBob],
     [customer_name |-> "bob", email |-> EmailAlice],
     [customer_name |-> "", email |-> EmailBob],
     [customer_name |-> "bob", email |-> <<>>],
     [customer_name |-> "bob", email |-> <<"b", ".", "y">>],
     [customer_name |-> "bob", email |-> <<"b", "@", "x">>]}

Item(p, q) == [product_id |-> p, quantity |-> q]

ItemLists ==
    {<<>>,
     <<Item(1, 1)>>,
     <<Item(1, 2), Item(2, 1)>>,
     <<Item(2, 1)>>,
     <<Item(2, 2)>>,
     <<Item(1, 0)>>,
     <<Item(3, 1)>>,
     <<Item(1, 1), Item(1, 1)>>}

NextApi ==
    \/ \E user_data \in UserInputs : create_user(user_data)
    \/ \E customer_id \in 0..MaxCustomerIds, items \in ItemLists : create_order(customer_id, items)
    \/ \E order_id \in 1..(MaxApiOrders + 1), reason \in CancelReasons : cancel_order(order_id, reason)
    \/ detect_anomalies

SpecApi == InitApi /\ [][NextApi]_vars


(***************************************************************************)
(* Claims about the order API (checked under SpecApi).                     *)
(***************************************************************************)
ItemsOfOrder(order_id) == {k \in DOMAIN order_items : order_items[k].order_id = order_id}

ItemsTotal(order_id) ==
    SumOver(ItemsOfOrder(order_id), [k \in ItemsOfOrder(order_id) |-> order_items[k].total_price])

TotalIsConsistent(o) ==
    /\ o.total_amount = ItemsTotal(o.order_id) + o.tax_amount + o.shipping_cost
    /\ ItemsOfOrder(o.order_id) # {} =>
           /\ o.tax_amount * 100 = ItemsTotal(o.order_id) * 8
           /\ o.shipping_cost = IF ItemsTotal(o.order_id) < 100 THEN 10 ELSE 0

\* C17: in every state reached by create_order and cancel_order calls, every
\* stored order has total_amount = sum of its order_items' total_price +
\* tax_amount + shipping_cost, the tax being 8% of the item subtotal and the
\* shipping cost 10 below a subtotal of 100 and 0 from 100 on.
C17_TotalIsItemsPlusTaxPlusShipping ==
    \A i \in DOMAIN orders : TotalIsConsistent(orders[i])

\* The part of C17 that the code keeps: the orders that are not cancelled.
C17_TotalOfOrdersNotCancelled ==
    \A i \in DOMAIN orders : orders[i].status # "cancelled" => TotalIsConsistent(orders[i])

\* An order created through the API with two items, tax 12 and free shipping.
C17_WitnessCreated ==
    /\ api_result = [op |-> "create_order", success |-> TRUE, id |-> 3, error |-> ""]
    /\ \E i \in DOMAIN orders :
           /\ orders[i].order_id = 3
           /\ orders[i].total_amount = 162
           /\ Cardinality(ItemsOfOrder(3)) = 2

\* A step of one of the analytical operations.
AnalyticsStep ==
    \/ \E months_back \in RetMonthsBack : customer_retention_rate(months_back)
    \/ segment_customers
    \/ \E year \in TrendYears : monthly_trends(year)
    \/ product_performance
    \/ detect_anomalies
    \/ abc_analysis
    \/ \E customer_id \in 0..MaxCustomerIds : get_customer_lifetime_value(customer_id)
    \/ \E date_range \in DashRanges : get_dashboard_metrics(date_range)

\* C19: no analytical operation changes the data: the customers, products,
\* orders and order_items seen through the Database handle are the same
\* after the call as before it, also when the operation's query fails.
C19_AnalyticsChangeNoData ==
    [][AnalyticsStep => UNCHANGED <<customers, products, orders, order_items>>]_vars

\* C20: cancel_order succeeds exactly for an existing order that is not
\* shipped, delivered or cancelled; after success the order is cancelled and
\* has no order_items, every other order and item being as before; a call
\* that fails changes no table; and no step moves an order out of cancelled.
C20_CancelStep ==
    /\ \A order_id \in 1..(MaxApiOrders + 1), reason \in CancelReasons :
           cancel_order(order_id, reason) =>
               LET cancellable ==
                       \E i \in DOMAIN orders :
                           /\ orders[i].order_id = order_id
                           /\ orders[i].status \notin {"shipped", "delivered", "cancelled"}
               IN  /\ api_result'.success = cancellable
                   /\ cancellable =>
                          /\ Len(orders') = Len(orders)
                          /\ \A i \in DOMAIN orders :
                                 IF orders[i].order_id = order_id
                                 THEN orders'[i].status = "cancelled"
                                 ELSE orders'[i] = orders[i]
                          /\ Range(order_items') =
                                 {it \in Range(order_items) : it.order_id # order_id}
                          /\ UNCHANGED <<customers, products>>
                   /\ ~cancellable => UNCHANGED <<customers, products, orders, order_items>>
    /\ \A i \in DOMAIN orders :
           orders[i].status = "cancelled" =>
               /\ i \in DOMAIN orders'
               /\ orders'[i].order_id = orders[i].order_id
               /\ orders'[i].status = "cancelled"

C20_WitnessSuccess ==
    /\ api_result = [op |-> "cancel_order", success |-> TRUE, id |-> 3, error |-> ""]
    /\ ItemsOfOrder(3) = {}
    /\ ItemsOfOrder(1) # {}


(***************************************************************************)
(* Cancelling orders between revenue queries: three stored orders of one   *)
(* customer, one delivered in February and two confirmed in March.         *)
(***************************************************************************)
InitCancel ==
    /\ customers = ApiCustomers
    /\ categories = SeedCategories
    /\ products = ApiProducts
    /\ orders = <<ApiSeedOrder(1, Midnight(ApiToday - 40) + 1, "delivered"),
                  ApiSeedOrder(2, Midnight(ApiToday - 5), "confirmed"),
                  ApiSeedOrder(3, Midnight(ApiToday - 2) + 1, "confirmed")>>
    /\ order_items = <<ApiSeedItem(1), ApiSeedItem(2), ApiSeedItem(3)>>
    /\ today = ApiToday
    /\ phase = "ready"
    /\ NoQueryResults
    /\ HandleInUse
    /\ pending_customers = {}
    /\ id_seq = [customers |-> 1, orders |-> 3, order_items |-> 3]

TopLimits == {10}

NextCancel ==
    \/ \E order_id \in 1..(MaxApiOrders + 1), reason \in CancelReasons : cancel_order(order_id, reason)
    \/ \E order_id \in 1..(MaxApiOrders + 1) : get_order_status(order_id)
    \/ monthly_trends(YearOf(ApiToday))
    \/ \E limit \in TopLimits : get_top_customers(limit)
    \/ get_dashboard_metrics("last_30_days")
    \/ product_performance

SpecCancel == InitCancel /\ [][NextCancel]_vars

(***************************************************************************)
(* Claims about cancelled orders (checked under SpecCancel).               *)
(***************************************************************************)
\* The orders that count as placed: those not cancelled.
PlacedOrders == {i \in DOMAIN orders : orders[i].status # "cancelled"}

PlacedRevenue(I) == SumOver(I \cap PlacedOrders, [i \in I \cap PlacedOrders |-> orders[i].total_amount])

OrdersOfMonth(y, m) ==
    {i \in DOMAIN orders : YearOf(DateOf(orders[i].order_date)) = y
                           /\ MonthOf(DateOf(orders[i].order_date)) = m}

PlacedItemsRevenue(p) ==
    LET K == {k \in DOMAIN order_items :
                 /\ order_items[k].product_id = p
                 /\ \E i \in PlacedOrders : orders[i].order_id = order_items[k].order_id}
    IN  SumOver(K, [k \in K |-> order_items[k].total_price])

TrendsWithoutCancelled ==
    trends_result.called =>
        /\ \A m \in 1..12 :
               (OrdersOfMonth(trends_result.year, m) \cap PlacedOrders # {})
                   <=> \E i \in DOMAIN trends_result.rows : trends_result.rows[i].month = m
        /\ \A i \in DOMAIN trends_result.rows :
               trends_result.rows[i].revenue =
                   PlacedRevenue(OrdersOfMonth(trends_result.year, trends_result.rows[i].month))

TopCustomersWithoutCancelled ==
    top_customers_result.called =>
        \A i \in DOMAIN top_customers_result.rows :
            \E c \in DOMAIN customers :
                /\ top_customers_result.rows[i].customer_name = customers[c].customer_name
                /\ top_customers_result.rows[i].total_spent =
                       PlacedRevenue(OrdersOfCustomer(orders, c))

DashboardWithoutCancelled ==
    dashboard_result.called =>
        /\ dashboard_result.total_sales =
               PlacedRevenue(OrdersBetween(today - DashboardDays(dashboard_result.date_range), today + 1))
        /\ \A i \in DOMAIN dashboard_result.top_products :
               \E p \in DOMAIN products :
                   /\ dashboard_result.top_products[i].product_name = products[p].product_name
                   /\ dashboard_result.top_products[i].revenue = PlacedItemsRevenue(p)

PerformanceWithoutCancelled ==
    performance_result.called =>
        \A i \in DOMAIN performance_result.rows :
            \E p \in DOMAIN products :
                /\ performance_result.rows[i].product_name = products[p].product_name
                /\ performance_result.rows[i].total_revenue = PlacedItemsRevenue(p)

StatusKeepsCancelled ==
    \A i \in DOMAIN orders :
        (order_status_result.called /\ order_status_result.order_id = orders[i].order_id) =>
            /\ order_status_result.found
            /\ order_status_result.status = orders[i].status

\* C16: once an order is cancelled, monthly_trends, get_top_customers,
\* get_dashboard_metrics and product_performance report the revenue of the
\* orders that are not cancelled, as if the cancelled order had never been
\* placed, while get_order_status still returns it, with status cancelled.
C16_CancelledOrdersOutOfRevenue ==
    /\ TrendsWithoutCancelled
    /\ TopCustomersWithoutCancelled
    /\ DashboardWithoutCancelled
    /\ PerformanceWithoutCancelled
    /\ StatusKeepsCancelled

\* The part of C16 that the code keeps: product_performance and the
\* dashboard's top products read order_items, which cancel_order deletes,
\* and get_order_status still returns the cancelled order.
C16_CancelledOrdersOutOfItemRevenue ==
    /\ PerformanceWithoutCancelled
    /\ StatusKeepsCancelled

C16_WitnessStatus ==
    /\ order_status_result.called
    /\ order_status_result.found
    /\ order_status_result.status = "cancelled"
    /\ performance_result.called


(***************************************************************************)
(* Claims about create_order and create_user (checked under SpecApi).      *)
(***************************************************************************)
\* The request names a customer and at least one item, the customer is
\* stored, and every item names a stored product with 0 < quantity <= stock.
OrderIsValid(customer_id, items) ==
    /\ customer_id # 0
    /\ items # <<>>
    /\ customer_id \in DOMAIN customers
    /\ \A i \in DOMAIN items :
           /\ items[i].product_id \in DOMAIN products
           /\ items[i].quantity > 0
           /\ items[i].quantity <= products[items[i].product_id].stock_quantity

SomeProductAbsent(items) == \E i \in DOMAIN items : items[i].product_id \notin DOMAIN products

C21_CreateOrderStep ==
    \A customer_id \in 0..MaxCustomerIds, items \in ItemLists :
        create_order(customer_id, items) =>
            /\ api_result'.success = OrderIsValid(customer_id, items)
            /\ api_result'.error = "One or more products not found" => SomeProductAbsent(items)
            /\ ~api_result'.success => UNCHANGED <<orders, order_items>>

\* C21: create_order returns success exactly when the customer exists and
\* every item names an existing product with a quantity > 0 that is at most
\* the product's stock_quantity; it answers "One or more products not found"
\* only when a requested product_id is absent from products; and a rejected
\* call stores no order and no order_items.
C21_CreateOrderSucceedsIffValid == [][C21_CreateOrderStep]_vars

\* The part of C21 that the code keeps: success implies a valid request, and
\* a rejected call stores nothing.
C21_SuccessOnlyIfValid ==
    [][\A customer_id \in 0..MaxCustomerIds, items \in ItemLists :
          create_order(customer_id, items) =>
              /\ api_result'.success => OrderIsValid(customer_id, items)
              /\ ~api_result'.success => UNCHANGED <<orders, order_items>>]_vars

\* Two items of the same stored product were answered "not found".
C21_WitnessDuplicate ==
    /\ api_result.op = "create_order"
    /\ api_result.error = "One or more products not found"
    /\ Len(orders) = 2

EmailsAreUnique ==
    \A c1, c2 \in DOMAIN customers : c1 # c2 => customers[c1].email # customers[c2].email

\* The request lacks a field, has an e-mail without '@' or '.', or has the
\* e-mail of a stored customer.
UserIsInvalid(user_data) ==
    \/ user_data.customer_name = ""
    \/ user_data.email = <<>>
    \/ ~HasChar(user_data.email, "@")
    \/ ~HasChar(user_data.email, ".")
    \/ \E c \in DOMAIN customers : customers[c].email = user_data.email

C22_CreateUserStep ==
    \A user_data \in UserInputs :
        (create_user(user_data) /\ UserIsInvalid(user_data)) =>
            /\ ~api_result'.success
            /\ api_result'.error # ""
            /\ UNCHANGED <<customers, pending_customers, id_seq>>

\* C22: no two stored customers share an e-mail, and a create_user call that
\* lacks customer_name or email, whose e-mail has no '@' or no '.', or whose
\* e-mail belongs to a stored customer returns success = False with an error
\* and stores nothing.
C22_EmailsStayUnique == []EmailsAreUnique /\ [][C22_CreateUserStep]_vars

\* A second customer is stored and a call with its e-mail was rejected.
C22_Witness ==
    /\ api_result.op = "create_user"
    /\ api_result.error = "Email already exists"
    /\ Cardinality(DOMAIN customers) = 2
    /\ pending_customers # {}

\* A call with an e-mail without '@' or '.' was rejected.
C22_WitnessFormat ==
    /\ api_result.op = "create_user"
    /\ api_result.error = "Invalid email format"


(***************************************************************************)
(* process_daily_sales_report: the summary of the report for one date.     *)
(* A date is a day number (the parameter is compared with DATE(order_date)).*)
(***************************************************************************)
\* WHERE DATE(o.order_date) = %s
OrdersOnDate(date) == {i \in DOMAIN orders : DateOf(orders[i].order_date) = date}

\* first_order: SELECT customer_id, MIN(DATE(order_date)) ... GROUP BY customer_id
FirstDate(c) ==
    LET days == {DateOf(orders[i].order_date) : i \in OrdersOfCustomer(orders, c)}
    IN  CHOOSE d \in days : \A e \in days : d <= e

\* SUM(CASE WHEN first_order.first_date = %s THEN 1 ELSE 0 END) over the
\* rows of orders o JOIN first_order: one row per order of the date.
NewCustomerRows(date) ==
    {i \in OrdersOnDate(date) : FirstDate(orders[i].customer_id) = date}

\* The summary; `x or 0` turns the NULL of an aggregate over no rows into 0.
process_daily_sales_report(date) ==
    /\ phase = "ready"
    /\ LET on == OrdersOnDate(date)
           new == Cardinality(NewCustomerRows(date))
       IN  daily_report_result' =
               [called |-> TRUE,
                date |-> date,
                total_orders |-> Cardinality(on),
                total_customers |-> Cardinality({orders[i].customer_id : i \in on}),
                total_sales |-> SumOver(on, [i \in on |-> orders[i].total_amount]),
                new_customers |-> new,
                returning_customers |-> Cardinality(on) - new]
    /\ UNCHANGED <<tables, phase, results, pending_customers, anomalies_result, clv_result,
                   performance_result, dashboard_result, top_customers_result,
                   order_status_result, api_result, id_seq, retention_alt_result, handle>>

MaxDailyOrders == 4

DailyToday == MkDate(BaseYear + 1, 1, 31)

ReportDay == MkDate(BaseYear + 1, 1, 10)

\* The day before the report day, and two times of the report day.
DailyDates == {Midnight(ReportDay - 1), Midnight(ReportDay), Midnight(ReportDay) + 1}

InitDaily ==
    /\ customers = SeedCustomers
    /\ categories = SeedCategories
    /\ products = SeedProducts
    /\ orders = <<>>
    /\ order_items = <<>>
    /\ today = DailyToday
    /\ phase = "loading"
    /\ NoResults

NextDaily ==
    \/ \E c \in 1..NumCustomers, ts \in DailyDates : LoadOrder(c, ts, 100, MaxDailyOrders)
    \/ FinishSetup
    \/ \E date \in (ReportDay - 1)..(ReportDay + 1) : process_daily_sales_report(date)

SpecDaily == InitDaily /\ [][NextDaily]_vars

(***************************************************************************)
(* Claims about process_daily_sales_report (checked under SpecDaily).      *)
(***************************************************************************)
CustomersOnDate(date) == {orders[i].customer_id : i \in OrdersOnDate(date)}

\* The customers of the date whose first order is of that date.
NewCustomersOnDate(date) ==
    {c \in CustomersOnDate(date) :
        \A i \in OrdersOfCustomer(orders, c) : DateOf(orders[i].order_date) >= date}

\* C23: in the summary for a date, new_customers and returning_customers
\* partition the distinct customers who ordered on that date: their sum is
\* total_customers, and new_customers counts the customers of the date whose
\* first order is of that date.
C23_NewPlusReturningIsTotalCustomers ==
    daily_report_result.called =>
        /\ daily_report_result.new_customers + daily_report_result.returning_customers
               = daily_report_result.total_customers
        /\ daily_report_result.total_customers
               = Cardinality(CustomersOnDate(daily_report_result.date))
        /\ daily_report_result.new_customers
               = Cardinality(NewCustomersOnDate(daily_report_result.date))

\* What the query keeps: the two counts partition the orders of the date.
C23_NewPlusReturningIsTotalOrders ==
    daily_report_result.called =>
        /\ daily_report_result.new_customers + daily_report_result.returning_customers
               = daily_report_result.total_orders
        /\ daily_report_result.new_customers >= Cardinality(NewCustomersOnDate(daily_report_result.date))

\* One customer placed two orders on the date of the report.
C23_WitnessTwoOrders ==
    /\ daily_report_result.called
    /\ daily_report_result.total_customers = 1
    /\ daily_report_result.new_customers = 2


(***************************************************************************)
(* The list functions two_sum, remove_duplicates and subarray_sum.  A      *)
(* Python list is a sequence; Python's indices start at 0, so element i of *)
(* the list is ns[i + 1].  Python integers do not overflow.                *)
(***************************************************************************)
MaxLen == 3

MaxValue == 2

ListValues == (-1)..MaxValue

Lists == UNION {[1..n -> ListValues] : n \in 0..MaxLen}

Targets == 0..(MaxValue + 1)

Sums == (-1)..1

\* seen[num] = i, and cumsum_count[cumsum] = n: one key of a dict is set.
DictSet(dict, key, value) ==
    [x \in (DOMAIN dict) \cup {key} |-> IF x = key THEN value ELSE dict[x]]

EmptyDict == [x \in {} |-> 0]

RECURSIVE TwoSumStoreFirst(_, _, _, _)
RECURSIVE TwoSumLoop(_, _, _, _)
\* The loop with `seen[num] = i` moved before the look-up.
TwoSumStoreFirst(ns, tg, i, seen) ==
    IF i >= Len(ns) THEN <<>>
    ELSE LET num == ns[i + 1]
             complement == tg - num
             stored == DictSet(seen, num, i)
         IN  IF complement \in DOMAIN stored
             THEN <<stored[complement], i>>
             ELSE TwoSumStoreFirst(ns, tg, i + 1, stored)

\* for i, num in enumerate(nums), from index i on with the dict seen
TwoSumLoop(ns, tg, i, seen) ==
    IF i >= Len(ns) THEN <<>>
    ELSE LET num == ns[i + 1]
             complement == tg - num
         IN  IF complement \in DOMAIN seen
             THEN <<seen[complement], i>>
             ELSE TwoSumLoop(ns, tg, i + 1, DictSet(seen, num, i))

two_sum ==
    /\ answer' = [fn |-> "two_sum", given |-> nums, value |-> TwoSumLoop(nums, target, 0, EmptyDict)]
    /\ UNCHANGED <<tables, phase, results, pending_customers, anomalies_result, clv_result,
                   performance_result, dashboard_result, top_customers_result,
                   order_status_result, api_result, id_seq, daily_report_result,
                   retention_alt_result, connection, db_result, nums, target, sum_k>>

RECURSIVE RemoveDuplicatesCountOnly(_, _, _)
RECURSIVE RemoveDuplicatesLoop(_, _, _)
\* The loop without the assignment nums[write_index] = nums[read_index].
RemoveDuplicatesCountOnly(ns, read_index, write_index) ==
    IF read_index >= Len(ns) THEN [length |-> write_index, nums |-> ns]
    ELSE IF ns[read_index + 1] # ns[read_index]
    THEN RemoveDuplicatesCountOnly(ns, read_index + 1, write_index + 1)
    ELSE RemoveDuplicatesCountOnly(ns, read_index + 1, write_index)

\* for read_index in range(1, len(nums)), from read_index on
RemoveDuplicatesLoop(ns, read_index, write_index) ==
    IF read_index >= Len(ns) THEN [length |-> write_index, nums |-> ns]
    ELSE IF ns[read_index + 1] # ns[read_index]
    THEN RemoveDuplicatesLoop([ns EXCEPT ![write_index + 1] = ns[read_index + 1]],
                              read_index + 1, write_index + 1)
    ELSE RemoveDuplicatesLoop(ns, read_index + 1, write_index)

\* The list is changed in place and the new length returned.
remove_duplicates ==
    /\ LET done == IF nums = <<>> THEN [length |-> 0, nums |-> nums]
                   ELSE RemoveDuplicatesLoop(nums, 1, 1)
       IN  /\ nums' = done.nums
           /\ answer' = [fn |-> "remove_duplicates", given |-> nums, value |-> done.length]
    /\ UNCHANGED <<tables, phase, results, pending_customers, anomalies_result, clv_result,
                   performance_result, dashboard_result, top_customers_result,
                   order_status_result, api_result, id_seq, daily_report_result,
                   retention_alt_result, connection, db_result, target, sum_k>>

RECURSIVE SubarraySumStoreFirst(_, _, _, _, _, _)
RECURSIVE SubarraySumLoop(_, _, _, _, _, _)
\* The loop with the update of cumsum_count moved before the look-up.
SubarraySumStoreFirst(ns, kk, i, count, cumsum, cumsum_count) ==
    IF i >= Len(ns) THEN count
    ELSE LET sum == cumsum + ns[i + 1]
             stored == DictSet(cumsum_count, sum,
                               (IF sum \in DOMAIN cumsum_count THEN cumsum_count[sum] ELSE 0) + 1)
             found == IF (sum - kk) \in DOMAIN stored THEN stored[sum - kk] ELSE 0
         IN  SubarraySumStoreFirst(ns, kk, i + 1, count + found, sum, stored)

\* for num in nums, from index i on
SubarraySumLoop(ns, kk, i, count, cumsum, cumsum_count) ==
    IF i >= Len(ns) THEN count
    ELSE LET sum == cumsum + ns[i + 1]
             found == IF (sum - kk) \in DOMAIN cumsum_count THEN cumsum_count[sum - kk] ELSE 0
         IN  SubarraySumLoop(ns, kk, i + 1, count + found, sum,
                             DictSet(cumsum_count, sum,
                                     (IF sum \in DOMAIN cumsum_count THEN cumsum_count[sum] ELSE 0) + 1))

subarray_sum ==
    /\ answer' = [fn |-> "subarray_sum", given |-> nums,
                  value |-> SubarraySumLoop(nums, sum_k, 0, 0, 0, DictSet(EmptyDict, 0, 1))]
    /\ UNCHANGED <<tables, phase, results, pending_customers, anomalies_result, clv_result,
                   performance_result, dashboard_result, top_customers_result,
                   order_status_result, api_result, id_seq, daily_report_result,
                   retention_alt_result, connection, db_result, nums, target, sum_k>>

\* No database is in use: the tables are empty and the handle is not connected.
InitLists ==
    /\ customers = SeedCustomers
    /\ categories = SeedCategories
    /\ products = SeedProducts
    /\ orders = <<>>
    /\ order_items = <<>>
    /\ today = AbcToday
    /\ phase = "ready"
    /\ NoQueryResults
    /\ pending_customers = {}
    /\ id_seq = NoIds
    /\ connection = "none"
    /\ db_result = NoCall
    /\ nums \in Lists
    /\ target \in Targets
    /\ sum_k \in Sums
    /\ answer = NoAnswer

NextLists ==
    \/ two_sum
    \/ remove_duplicates
    \/ subarray_sum

SpecLists == InitLists /\ [][NextLists]_vars

(***************************************************************************)
(* Claims about the list functions (checked under SpecLists).              *)
(***************************************************************************)
\* The pairs of Python indices i < j of ns whose elements add up to tg.
PairsWithSum(ns, tg) ==
    {p \in (0..(Len(ns) - 1)) \X (0..(Len(ns) - 1)) :
        p[1] < p[2] /\ ns[p[1] + 1] + ns[p[2] + 1] = tg}

\* C24: two_sum(nums, target) returns [i, j] with i < j and
\* nums[i] + nums[j] = target whenever two distinct indices with that sum
\* exist, and [] when none exist; it never pairs an element with itself.
C24_TwoSumFindsAPair ==
    answer.fn = "two_sum" =>
        IF PairsWithSum(answer.given, target) = {}
        THEN answer.value = <<>>
        ELSE /\ Len(answer.value) = 2
             /\ <<answer.value[1], answer.value[2]>> \in PairsWithSum(answer.given, target)

\* The first element is half the target and occurs once; a later pair is found.
C24_Witness ==
    /\ answer.fn = "two_sum"
    /\ answer.given = <<1, 0, 2>>
    /\ target = 2
    /\ answer.value = <<1, 2>>

\* No pair exists although an element is half the target.
C24_WitnessNone ==
    /\ answer.fn = "two_sum"
    /\ answer.given = <<1, 2>>
    /\ target = 2
    /\ answer.value = <<>>

IsSorted(ns) == \A i \in 1..(Len(ns) - 1) : ns[i] <= ns[i + 1]

\* C25: on a list sorted in non-decreasing order remove_duplicates returns
\* the number k of distinct values, leaves the distinct values in strictly
\* increasing order in nums[0..k-1], and keeps the length of nums; on an
\* empty list it returns 0.
C25_RemoveDuplicatesKeepsDistinct ==
    (answer.fn = "remove_duplicates" /\ IsSorted(answer.given)) =>
        /\ answer.value = Cardinality(Range(answer.given))
        /\ Len(nums) = Len(answer.given)
        /\ \A i \in 1..(answer.value - 1) : nums[i] < nums[i + 1]
        /\ {nums[i] : i \in 1..answer.value} = Range(answer.given)
        /\ answer.given = <<>> => answer.value = 0

\* A sorted list with a repeated value in front has been compacted.
C25_Witness ==
    /\ answer.fn = "remove_duplicates"
    /\ answer.given = <<1, 1, 2>>
    /\ answer.value = 2
    /\ nums = <<1, 2, 2>>

RECURSIVE SliceSum(_, _, _)
\* nums[i] + ... + nums[j], Python indices
SliceSum(ns, i, j) == IF i > j THEN 0 ELSE ns[i + 1] + SliceSum(ns, i + 1, j)

SlicesWithSum(ns, kk) ==
    {p \in (0..(Len(ns) - 1)) \X (0..(Len(ns) - 1)) :
        p[1] <= p[2] /\ SliceSum(ns, p[1], p[2]) = kk}

\* C26: subarray_sum(nums, k) returns the number of index pairs (i, j),
\* i <= j, whose slice nums[i..j] sums to k, for lists with negative
\* numbers and zeros and for k = 0.
C26_SubarraySumCountsSlices ==
    answer.fn = "subarray_sum" =>
        answer.value = Cardinality(SlicesWithSum(answer.given, sum_k))

\* [1, -1, 0] has three slices of sum 0.
C26_Witness ==
    /\ answer.fn = "subarray_sum"
    /\ answer.given = <<1, -1, 0>>
    /\ sum_k = 0
    /\ answer.value = 3


(***************************************************************************)
(* CustomerAnalyticsAlternatives.retention_rate_with_exists and            *)
(* retention_rate_single_query                                             *)
(***************************************************************************)
\* The Python guard and division, the same in the three methods.
RetentionValue(total, retained) ==
    IF total > 0 THEN Frac(retained * 100, total) ELSE Frac(0, 1)

\* The EXISTS with the bound of the last month left out.
HasRecentOrderStrict(c) ==
    \E i \in 1..Len(orders) : orders[i].customer_id = c /\ orders[i].order_date > RecentStart

\* EXISTS (SELECT 1 FROM orders recent WHERE recent.customer_id = ... AND
\* recent.order_date >= CURRENT_DATE - INTERVAL '1 month')
HasRecentOrder(c) ==
    \E i \in 1..Len(orders) : orders[i].customer_id = c /\ orders[i].order_date >= RecentStart

\* COUNT(*) and COUNT(CASE WHEN EXISTS (...) THEN 1 END) over base_customers
retention_rate_with_exists(mb) ==
    /\ phase = "ready"
    /\ LET base_customers == CustomersMonthsBack(mb)
           total_past == Cardinality(base_customers)
           retained == Cardinality({c \in base_customers : HasRecentOrder(c)})
       IN  retention_alt_result' =
               [retention_alt_result EXCEPT
                   !.with_exists = [called |-> TRUE, months_back |-> mb,
                                    value |-> RetentionValue(total_past, retained)]]
    /\ UNCHANGED <<tables, phase, results, pending_customers, anomalies_result, clv_result,
                   performance_result, dashboard_result, top_customers_result,
                   order_status_result, api_result, id_seq, daily_report_result, handle>>

\* The rows of orders for which the first CASE yields customer_id.
PastRows(mb) ==
    {j \in 1..Len(orders) :
        InMonthsBackWindow(orders[j].order_date, MonthsBackStart(mb), MonthsBackEnd(mb))}

\* The rows for which the second CASE does: customer_id IN (SELECT DISTINCT
\* customer_id FROM orders WHERE order_date >= CURRENT_DATE - INTERVAL '1 month')
RetainedRows(mb) == {j \in PastRows(mb) : orders[j].customer_id \in CustomersRecent}

\* COUNT(DISTINCT CASE ... THEN customer_id END), twice, over orders
retention_rate_single_query(mb) ==
    /\ phase = "ready"
    /\ LET past == Cardinality({orders[j].customer_id : j \in PastRows(mb)})
           retained == Cardinality({orders[j].customer_id : j \in RetainedRows(mb)})
       IN  retention_alt_result' =
               [retention_alt_result EXCEPT
                   !.single_query = [called |-> TRUE, months_back |-> mb,
                                     value |-> RetentionValue(past, retained)]]
    /\ UNCHANGED <<tables, phase, results, pending_customers, anomalies_result, clv_result,
                   performance_result, dashboard_result, top_customers_result,
                   order_status_result, api_result, id_seq, daily_report_result, handle>>

MaxRetAltOrders == 3

NextRetAlt ==
    \/ \E c \in 1..NumCustomers, ts \in RetDates : LoadOrder(c, ts, 100, MaxRetAltOrders)
    \/ FinishSetup
    \/ \E mb \in RetMonthsBack : customer_retention_rate(mb)
    \/ \E mb \in RetMonthsBack : retention_rate_with_exists(mb)
    \/ \E mb \in RetMonthsBack : retention_rate_single_query(mb)

SpecRetAlt == InitRet /\ [][NextRetAlt]_vars

(***************************************************************************)
(* Claims about the three retention methods (checked under SpecRetAlt).    *)
(***************************************************************************)
SameRetention(a, b) ==
    (a.called /\ b.called /\ a.months_back = b.months_back) => a.value = b.value

\* C29: customer_retention_rate, retention_rate_with_exists and
\* retention_rate_single_query return the same value for the same orders
\* and the same months_back >= 0, also when the reference cohort is empty.
C29_RetentionMethodsAgree ==
    /\ SameRetention(retention_result, retention_alt_result.with_exists)
    /\ SameRetention(retention_result, retention_alt_result.single_query)
    /\ SameRetention(retention_alt_result.with_exists, retention_alt_result.single_query)

AllThreeCalled ==
    /\ retention_result.called
    /\ retention_alt_result.with_exists.called
    /\ retention_alt_result.single_query.called
    /\ retention_alt_result.with_exists.months_back = retention_result.months_back
    /\ retention_alt_result.single_query.months_back = retention_result.months_back

\* The three methods were called with one months_back and returned 50.
C29_Witness ==
    /\ AllThreeCalled
    /\ retention_result.value = Frac(50, 1)

\* The reference cohort is empty while the last month has orders.
C29_WitnessEmptyCohort ==
    /\ AllThreeCalled
    /\ CohortA = {}
    /\ CohortB # {}
    /\ retention_alt_result.single_query.value = Frac(0, 1)


(***************************************************************************)
(* create_order on a database that may fail INSERT statements.             *)
(***************************************************************************)
\* Which statements of one call fail: the order's INSERT and up to two items'.
FailedStatements == SUBSET (0..2)

NextOrderDb ==
    \/ \E user_data \in UserInputs : create_user(user_data)
    \/ \E customer_id \in 0..MaxCustomerIds, items \in ItemLists, failed \in FailedStatements :
           create_order_db(customer_id, items, failed)
    \/ \E order_id \in 1..(MaxApiOrders + 1), reason \in CancelReasons : cancel_order(order_id, reason)

SpecOrderDb == InitApi /\ [][NextOrderDb]_vars

OrderIsStored(order_id) == \E i \in DOMAIN orders : orders[i].order_id = order_id

C27_CreateOrderStep ==
    \A customer_id \in 0..MaxCustomerIds, items \in ItemLists, failed \in FailedStatements :
        create_order_db(customer_id, items, failed) =>
            /\ api_result'.success =>
                   /\ \E i \in DOMAIN orders' : orders'[i].order_id = api_result'.id
                   /\ Cardinality({n \in DOMAIN order_items' :
                                       order_items'[n].order_id = api_result'.id}) = Len(items)
            /\ (failed \cap (0..Len(items)) # {}) =>
                   /\ ~api_result'.success
                   /\ UNCHANGED <<orders, order_items>>

\* C27: create_order returns success only if the order's row and one
\* order_items row per requested item are stored afterwards; when the
\* INSERT of the order or of an item fails in the database, the call returns
\* success = False and leaves no order without all its items.
C27_SuccessMeansAllStored == [][C27_CreateOrderStep]_vars

\* Success was returned for order 3, of which only one item is stored.
C27_WitnessPartial ==
    /\ api_result.op = "create_order"
    /\ api_result.success
    /\ api_result.id = 3
    /\ OrderIsStored(3)
    /\ Cardinality(ItemsOfOrder(3)) = 1
    /\ \E i \in DOMAIN orders : orders[i].order_id = 3 /\ orders[i].total_amount = 162

\* Success was returned for an order whose row was rolled back.
C27_WitnessNoOrder ==
    /\ api_result.op = "create_order"
    /\ api_result.success
    /\ ~OrderIsStored(api_result.id)


(***************************************************************************)
(* The Database handle: connect, close and execute_query in any order.     *)
(* connection is "none" for None, "open" for a connection in use and       *)
(* "closed" for a connection object after close(), which is still truthy.  *)
(* A statement is "SELECT" (rows come back), "UPDATE" (no result set) or   *)
(* "FAILING" (the server raises an error).                                 *)
(***************************************************************************)
Queries == {"SELECT", "UPDATE", "FAILING"}

\* The call leaves no table and no sequence as it was known to a query result.
HandleCall(op, outcome) ==
    /\ db_result' = [op |-> op, outcome |-> outcome]
    /\ anomalies_result' = NoAnomalies
    /\ OtherQueryResultsDropped
    /\ UNCHANGED <<categories, products, orders, order_items, today, phase, api_result, id_seq,
                   nums, target, sum_k, answer>>

\* psycopg2.connect either returns a connection, which replaces the old
\* one (whose open transaction is lost), or raises: the error is caught,
\* None is returned and self.connection stays as it was.
connect ==
    \E reachable \in BOOLEAN :
        IF reachable
        THEN /\ connection' = "open"
             /\ ExecuteQueryError
             /\ HandleCall("connect", "connection")
        ELSE /\ UNCHANGED <<connection, customers, pending_customers>>
             /\ HandleCall("connect", "None")

\* if self.connection: self.connection.close(); the open transaction of a
\* closed connection is rolled back by the server.
close ==
    /\ IF connection = "open"
       THEN /\ connection' = "closed"
            /\ ExecuteQueryError
       ELSE UNCHANGED <<connection, customers, pending_customers>>
    /\ HandleCall("close", "None")

\* `if not self.connection` tests for None only: a closed connection is not
\* replaced.
ConnectsLazily == connection = "none"

\* The statement on an open connection.
RunQuery(query) ==
    IF query = "SELECT"
    THEN \* cursor.description is set: fetchall(), no commit
         /\ UNCHANGED <<customers, pending_customers>>
         /\ HandleCall("execute_query", "rows")
    ELSE IF query = "UPDATE"
    THEN \* self.connection.commit(); return cursor.rowcount
         /\ pending_customers' = {}
         /\ UNCHANGED customers
         /\ HandleCall("execute_query", "rowcount")
    ELSE \* except psycopg2.Error: rollback, print, return None
         /\ ExecuteQueryError
         /\ HandleCall("execute_query", "None")

execute_query(query) ==
    \E reachable \in BOOLEAN :
        IF ConnectsLazily /\ reachable
        THEN /\ connection' = "open"
             /\ RunQuery(query)
        ELSE IF ConnectsLazily
        THEN \* connect() returned None: None has no cursor()
             /\ UNCHANGED <<connection, customers, pending_customers>>
             /\ HandleCall("execute_query", "AttributeError")
        ELSE IF connection = "closed"
        THEN \* cursor() raises InterfaceError, and so does rollback() in the handler
             /\ UNCHANGED <<connection, customers, pending_customers>>
             /\ HandleCall("execute_query", "InterfaceError")
        ELSE /\ UNCHANGED connection
             /\ RunQuery(query)

\* After Database(): no connection yet.
InitDb ==
    /\ customers = ApiCustomers
    /\ categories = SeedCategories
    /\ products = ApiProducts
    /\ orders = <<ApiSeedOrder(1, Midnight(ApiToday - 10) + 1, "shipped"),
                  ApiSeedOrder(2, Midnight(ApiToday - 5), "delivered")>>
    /\ order_items = <<ApiSeedItem(1), ApiSeedItem(2)>>
    /\ today = ApiToday
    /\ phase = "ready"
    /\ NoQueryResults
    /\ pending_customers = {}
    /\ id_seq = [customers |-> 1, orders |-> 2, order_items |-> 2]
    /\ connection = "none"
    /\ db_result = NoCall
    /\ nums = <<>>
    /\ target = 0
    /\ sum_k = 0
    /\ answer = NoAnswer

\* create_user is called on a handle whose connection is open.
NextDb ==
    \/ connect
    \/ close
    \/ \E query \in Queries : execute_query(query)
    \/ \E user_data \in UserInputs : connection = "open" /\ create_user(user_data)

SpecDb == InitDb /\ [][NextDb]_vars

(***************************************************************************)
(* Claims about the Database handle (checked under SpecDb).                *)
(***************************************************************************)
\* C28: a customer for whom create_user returned success stays stored after
\* every later call on the same handle: no failing query, rolled back by
\* execute_query, and no close() removes the customer.
C28_CreatedCustomersStay ==
    [][\A c \in DOMAIN customers : c \in DOMAIN customers']_vars

\* A customer is lost only while uncommitted: committed customers stay.
C28_CommittedCustomersStay ==
    [][\A c \in (DOMAIN customers) \ pending_customers : c \in DOMAIN customers']_vars

\* Customer 2 was created, and a failing query has removed it.
C28_WitnessLost ==
    /\ id_seq.customers = 2
    /\ 2 \notin DOMAIN customers
    /\ db_result = [op |-> "execute_query", outcome |-> "None"]

\* C30: execute_query lets no database error escape, in any order of
\* connect, execute_query and close calls.
C30_NoDatabaseErrorEscapes ==
    db_result.op = "execute_query" => db_result.outcome # "InterfaceError"

\* On an open connection a failing statement is rolled back and None returned,
\* and a handle without connection connects when the server is reachable.
C30_OpenConnectionReturns ==
    [][\A query \in Queries :
          (execute_query(query) /\ connection' = "open") =>
              db_result'.outcome = (IF query = "SELECT" THEN "rows"
                                    ELSE IF query = "UPDATE" THEN "rowcount" ELSE "None")]_vars

\* The server was not reachable on the first use of the handle.
C30_WitnessNoConnection ==
    /\ connection = "none"
    /\ db_result = [op |-> "execute_query", outcome |-> "AttributeError"]


====
